---- MODULE Spec2Model ----
(***************************************************************************)
(* Order-submission gateway of the Binance futures bot:                    *)
(* OrderRequest.validate, BinanceFuturesClient.place_order and the         *)
(* retry_on_error decorator that wraps it (src/binance_client.py).         *)
(*                                                                         *)
(* Encoding of Python values:                                              *)
(*   - a value that may be None (Optional[...]) is a sequence of length    *)
(*     at most one: None is <<>>, the value x is <<x>>;                    *)
(*   - a float (a quantity, a price, what float() reads from a text) is    *)
(*     a record of its sign, its class (zero, finite, inf, nan) and, for   *)
(*     a finite value, its decimal digits and the place of the point;      *)
(*   - a log record is its level and its message; the model keeps the      *)
(*     records the loggers emit at level INFO and above, in order;         *)
(*   - a text that the code searches, converts or prints is the sequence   *)
(*     of its characters, each character a string (the section             *)
(*     "Characters" says how a character is written); identifiers that     *)
(*     are only compared for equality (symbol, side, order_type) are       *)
(*     strings;                                                            *)
(*   - a dict is a record (a function from its keys).                      *)
(***************************************************************************)
EXTENDS Integers, Sequences, FiniteSets

VARIABLES
    pc,              \* position of the caller / wrapper / place_order body
    order,           \* the OrderRequest passed to place_order
    script,          \* what futures_create_order does on its 1st, 2nd, ... call
    attempt,         \* wrapper: loop variable of  for attempt in range(max_retries)
    last_exception,  \* wrapper: last_exception
    exc,             \* the exception in flight from the body to the wrapper
    result,          \* how the place_order call ended (returned value / raised)
    validations,     \* number of order.validate() calls made by this call
    calls,           \* number of futures_create_order calls made by this call
    sent,            \* the wire payloads handed to futures_create_order
    sleeps,          \* the arguments of time.sleep, in order
    validated,       \* what each order.validate() of this call returned
    caller,          \* who builds the request: CLI.run, an order tool, ...
    args,            \* the arguments the caller was given
    qpc,             \* position of the query tool
    tool,            \* the query tool invoked: its module and its name
    creds,           \* the credentials in the environment / in the arguments
    connect,         \* what constructing binance.client.Client does
    qsymbol,         \* get_position_info: the symbol argument
    reply,           \* what the exchange does with the query request
    client,          \* the gateway client get_client returned
    data,            \* the data the query request returned
    qexc,            \* the exception in flight to the tool's except clause
    requests,        \* the query requests issued to the exchange
    ret,             \* how the tool ended (returned string / raised)
    deco,            \* the arguments of the retry_on_error decorator
    printed,         \* what CLI.run has printed, one entry per print call
    connections,     \* the binance Client(...) constructions so far
    stand_in,        \* CLI.run: what place_order of a stand-in client does
    gateways,        \* the BinanceFuturesClient instances of one process
    logs             \* the records logged since the initial state, in order

callerVars == <<caller, args>>
queryVars == <<qpc, tool, creds, connect, qsymbol, reply, client, data, qexc,
               requests, ret>>

retryVars == <<deco>>
collabVars == <<printed, connections, stand_in>>
gatewayVars == <<gateways>>

vars == <<pc, order, script, attempt, last_exception, exc, result,
          validations, calls, sent, sleeps, validated, callerVars,
          queryVars, retryVars, gatewayVars, collabVars, logs>>

----------------------------------------------------------------------------
\* Bounds of the input space.
MaxQty == 1
MaxPrice == 1

\* @retry_on_error(max_retries=3, delay=2) on place_order
max_retries == 3
delay == 2

None == <<>>
Some(x) == <<x>>

----------------------------------------------------------------------------
\* Characters.  A str is a tuple of characters.  A printable ASCII character
\* is written as itself, tab, line feed, carriage return and form feed as
\* "\t", "\n", "\r" and "\f", and every other character by its code
\* point, "<U+XXXX>" with four to six upper-case hexadecimal digits
\* ("<U+00DF>" is the sharp s, "<U+000B>" the vertical tab).  The tables
\* below are those of Unicode 14.0.0, the version of the interpreter's
\* unicodedata.

\* The characters that str.isdecimal accepts (Unicode category Nd), by the
\* digit each stands for: UnicodeDigits[d + 1] holds the characters of
\* value d.
UnicodeDigits ==
    <<
      {
       "0", "<U+0660>", "<U+06F0>", "<U+07C0>", "<U+0966>", "<U+09E6>",
       "<U+0A66>", "<U+0AE6>", "<U+0B66>", "<U+0BE6>", "<U+0C66>", "<U+0CE6>",
       "<U+0D66>", "<U+0DE6>", "<U+0E50>", "<U+0ED0>", "<U+0F20>", "<U+1040>",
       "<U+1090>", "<U+17E0>", "<U+1810>", "<U+1946>", "<U+19D0>", "<U+1A80>",
       "<U+1A90>", "<U+1B50>", "<U+1BB0>", "<U+1C40>", "<U+1C50>", "<U+A620>",
       "<U+A8D0>", "<U+A900>", "<U+A9D0>", "<U+A9F0>", "<U+AA50>", "<U+ABF0>",
       "<U+FF10>", "<U+104A0>", "<U+10D30>", "<U+11066>", "<U+110F0>",
       "<U+11136>", "<U+111D0>", "<U+112F0>", "<U+11450>", "<U+114D0>",
       "<U+11650>", "<U+116C0>", "<U+11730>", "<U+118E0>", "<U+11950>",
       "<U+11C50>", "<U+11D50>", "<U+11DA0>", "<U+16A60>", "<U+16AC0>",
       "<U+16B50>", "<U+1D7CE>", "<U+1D7D8>", "<U+1D7E2>", "<U+1D7EC>",
       "<U+1D7F6>", "<U+1E140>", "<U+1E2F0>", "<U+1E950>", "<U+1FBF0>"},
      {
       "1", "<U+0661>", "<U+06F1>", "<U+07C1>", "<U+0967>", "<U+09E7>",
       "<U+0A67>", "<U+0AE7>", "<U+0B67>", "<U+0BE7>", "<U+0C67>", "<U+0CE7>",
       "<U+0D67>", "<U+0DE7>", "<U+0E51>", "<U+0ED1>", "<U+0F21>", "<U+1041>",
       "<U+1091>", "<U+17E1>", "<U+1811>", "<U+1947>", "<U+19D1>", "<U+1A81>",
       "<U+1A91>", "<U+1B51>", "<U+1BB1>", "<U+1C41>", "<U+1C51>", "<U+A621>",
       "<U+A8D1>", "<U+A901>", "<U+A9D1>", "<U+A9F1>", "<U+AA51>", "<U+ABF1>",
       "<U+FF11>", "<U+104A1>", "<U+10D31>", "<U+11067>", "<U+110F1>",
       "<U+11137>", "<U+111D1>", "<U+112F1>", "<U+11451>", "<U+114D1>",
       "<U+11651>", "<U+116C1>", "<U+11731>", "<U+118E1>", "<U+11951>",
       "<U+11C51>", "<U+11D51>", "<U+11DA1>", "<U+16A61>", "<U+16AC1>",
       "<U+16B51>", "<U+1D7CF>", "<U+1D7D9>", "<U+1D7E3>", "<U+1D7ED>",
       "<U+1D7F7>", "<U+1E141>", "<U+1E2F1>", "<U+1E951>", "<U+1FBF1>"},
      {
       "2", "<U+0662>", "<U+06F2>", "<U+07C2>", "<U+0968>", "<U+09E8>",
       "<U+0A68>", "<U+0AE8>", "<U+0B68>", "<U+0BE8>", "<U+0C68>", "<U+0CE8>",
       "<U+0D68>", "<U+0DE8>", "<U+0E52>", "<U+0ED2>", "<U+0F22>", "<U+1042>",
       "<U+1092>", "<U+17E2>", "<U+1812>", "<U+1948>", "<U+19D2>", "<U+1A82>",
       "<U+1A92>", "<U+1B52>", "<U+1BB2>", "<U+1C42>", "<U+1C52>", "<U+A622>",
       "<U+A8D2>", "<U+A902>", "<U+A9D2>", "<U+A9F2>", "<U+AA52>", "<U+ABF2>",
       "<U+FF12>", "<U+104A2>", "<U+10D32>", "<U+11068>", "<U+110F2>",
       "<U+11138>", "<U+111D2>", "<U+112F2>", "<U+11452>", "<U+114D2>",
       "<U+11652>", "<U+116C2>", "<U+11732>", "<U+118E2>", "<U+11952>",
       "<U+11C52>", "<U+11D52>", "<U+11DA2>", "<U+16A62>", "<U+16AC2>",
       "<U+16B52>", "<U+1D7D0>", "<U+1D7DA>", "<U+1D7E4>", "<U+1D7EE>",
       "<U+1D7F8>", "<U+1E142>", "<U+1E2F2>", "<U+1E952>", "<U+1FBF2>"},
      {
       "3", "<U+0663>", "<U+06F3>", "<U+07C3>", "<U+0969>", "<U+09E9>",
       "<U+0A69>", "<U+0AE9>", "<U+0B69>", "<U+0BE9>", "<U+0C69>", "<U+0CE9>",
       "<U+0D69>", "<U+0DE9>", "<U+0E53>", "<U+0ED3>", "<U+0F23>", "<U+1043>",
       "<U+1093>", "<U+17E3>", "<U+1813>", "<U+1949>", "<U+19D3>", "<U+1A83>",
       "<U+1A93>", "<U+1B53>", "<U+1BB3>", "<U+1C43>", "<U+1C53>", "<U+A623>",
       "<U+A8D3>", "<U+A903>", "<U+A9D3>", "<U+A9F3>", "<U+AA53>", "<U+ABF3>",
       "<U+FF13>", "<U+104A3>", "<U+10D33>", "<U+11069>", "<U+110F3>",
       "<U+11139>", "<U+111D3>", "<U+112F3>", "<U+11453>", "<U+114D3>",
       "<U+11653>", "<U+116C3>", "<U+11733>", "<U+118E3>", "<U+11953>",
       "<U+11C53>", "<U+11D53>", "<U+11DA3>", "<U+16A63>", "<U+16AC3>",
       "<U+16B53>", "<U+1D7D1>", "<U+1D7DB>", "<U+1D7E5>", "<U+1D7EF>",
       "<U+1D7F9>", "<U+1E143>", "<U+1E2F3>", "<U+1E953>", "<U+1FBF3>"},
      {
       "4", "<U+0664>", "<U+06F4>", "<U+07C4>", "<U+096A>", "<U+09EA>",
       "<U+0A6A>", "<U+0AEA>", "<U+0B6A>", "<U+0BEA>", "<U+0C6A>", "<U+0CEA>",
       "<U+0D6A>", "<U+0DEA>", "<U+0E54>", "<U+0ED4>", "<U+0F24>", "<U+1044>",
       "<U+1094>", "<U+17E4>", "<U+1814>", "<U+194A>", "<U+19D4>", "<U+1A84>",
       "<U+1A94>", "<U+1B54>", "<U+1BB4>", "<U+1C44>", "<U+1C54>", "<U+A624>",
       "<U+A8D4>", "<U+A904>", "<U+A9D4>", "<U+A9F4>", "<U+AA54>", "<U+ABF4>",
       "<U+FF14>", "<U+104A4>", "<U+10D34>", "<U+1106A>", "<U+110F4>",
       "<U+1113A>", "<U+111D4>", "<U+112F4>", "<U+11454>", "<U+114D4>",
       "<U+11654>", "<U+116C4>", "<U+11734>", "<U+118E4>", "<U+11954>",
       "<U+11C54>", "<U+11D54>", "<U+11DA4>", "<U+16A64>", "<U+16AC4>",
       "<U+16B54>", "<U+1D7D2>", "<U+1D7DC>", "<U+1D7E6>", "<U+1D7F0>",
       "<U+1D7FA>", "<U+1E144>", "<U+1E2F4>", "<U+1E954>", "<U+1FBF4>"},
      {
       "5", "<U+0665>", "<U+06F5>", "<U+07C5>", "<U+096B>", "<U+09EB>",
       "<U+0A6B>", "<U+0AEB>", "<U+0B6B>", "<U+0BEB>", "<U+0C6B>", "<U+0CEB>",
       "<U+0D6B>", "<U+0DEB>", "<U+0E55>", "<U+0ED5>", "<U+0F25>", "<U+1045>",
       "<U+1095>", "<U+17E5>", "<U+1815>", "<U+194B>", "<U+19D5>", "<U+1A85>",
       "<U+1A95>", "<U+1B55>", "<U+1BB5>", "<U+1C45>", "<U+1C55>", "<U+A625>",
       "<U+A8D5>", "<U+A905>", "<U+A9D5>", "<U+A9F5>", "<U+AA55>", "<U+ABF5>",
       "<U+FF15>", "<U+104A5>", "<U+10D35>", "<U+1106B>", "<U+110F5>",
       "<U+1113B>", "<U+111D5>", "<U+112F5>", "<U+11455>", "<U+114D5>",
       "<U+11655>", "<U+116C5>", "<U+11735>", "<U+118E5>", "<U+11955>",
       "<U+11C55>", "<U+11D55>", "<U+11DA5>", "<U+16A65>", "<U+16AC5>",
       "<U+16B55>", "<U+1D7D3>", "<U+1D7DD>", "<U+1D7E7>", "<U+1D7F1>",
       "<U+1D7FB>", "<U+1E145>", "<U+1E2F5>", "<U+1E955>", "<U+1FBF5>"},
      {
       "6", "<U+0666>", "<U+06F6>", "<U+07C6>", "<U+096C>", "<U+09EC>",
       "<U+0A6C>", "<U+0AEC>", "<U+0B6C>", "<U+0BEC>", "<U+0C6C>", "<U+0CEC>",
       "<U+0D6C>", "<U+0DEC>", "<U+0E56>", "<U+0ED6>", "<U+0F26>", "<U+1046>",
       "<U+1096>", "<U+17E6>", "<U+1816>", "<U+194C>", "<U+19D6>", "<U+1A86>",
       "<U+1A96>", "<U+1B56>", "<U+1BB6>", "<U+1C46>", "<U+1C56>", "<U+A626>",
       "<U+A8D6>", "<U+A906>", "<U+A9D6>", "<U+A9F6>", "<U+AA56>", "<U+ABF6>",
       "<U+FF16>", "<U+104A6>", "<U+10D36>", "<U+1106C>", "<U+110F6>",
       "<U+1113C>", "<U+111D6>", "<U+112F6>", "<U+11456>", "<U+114D6>",
       "<U+11656>", "<U+116C6>", "<U+11736>", "<U+118E6>", "<U+11956>",
       "<U+11C56>", "<U+11D56>", "<U+11DA6>", "<U+16A66>", "<U+16AC6>",
       "<U+16B56>", "<U+1D7D4>", "<U+1D7DE>", "<U+1D7E8>", "<U+1D7F2>",
       "<U+1D7FC>", "<U+1E146>", "<U+1E2F6>", "<U+1E956>", "<U+1FBF6>"},
      {
       "7", "<U+0667>", "<U+06F7>", "<U+07C7>", "<U+096D>", "<U+09ED>",
       "<U+0A6D>", "<U+0AED>", "<U+0B6D>", "<U+0BED>", "<U+0C6D>", "<U+0CED>",
       "<U+0D6D>", "<U+0DED>", "<U+0E57>", "<U+0ED7>", "<U+0F27>", "<U+1047>",
       "<U+1097>", "<U+17E7>", "<U+1817>", "<U+194D>", "<U+19D7>", "<U+1A87>",
       "<U+1A97>", "<U+1B57>", "<U+1BB7>", "<U+1C47>", "<U+1C57>", "<U+A627>",
       "<U+A8D7>", "<U+A907>", "<U+A9D7>", "<U+A9F7>", "<U+AA57>", "<U+ABF7>",
       "<U+FF17>", "<U+104A7>", "<U+10D37>", "<U+1106D>", "<U+110F7>",
       "<U+1113D>", "<U+111D7>", "<U+112F7>", "<U+11457>", "<U+114D7>",
       "<U+11657>", "<U+116C7>", "<U+11737>", "<U+118E7>", "<U+11957>",
       "<U+11C57>", "<U+11D57>", "<U+11DA7>", "<U+16A67>", "<U+16AC7>",
       "<U+16B57>", "<U+1D7D5>", "<U+1D7DF>", "<U+1D7E9>", "<U+1D7F3>",
       "<U+1D7FD>", "<U+1E147>", "<U+1E2F7>", "<U+1E957>", "<U+1FBF7>"},
      {
       "8", "<U+0668>", "<U+06F8>", "<U+07C8>", "<U+096E>", "<U+09EE>",
       "<U+0A6E>", "<U+0AEE>", "<U+0B6E>", "<U+0BEE>", "<U+0C6E>", "<U+0CEE>",
       "<U+0D6E>", "<U+0DEE>", "<U+0E58>", "<U+0ED8>", "<U+0F28>", "<U+1048>",
       "<U+1098>", "<U+17E8>", "<U+1818>", "<U+194E>", "<U+19D8>", "<U+1A88>",
       "<U+1A98>", "<U+1B58>", "<U+1BB8>", "<U+1C48>", "<U+1C58>", "<U+A628>",
       "<U+A8D8>", "<U+A908>", "<U+A9D8>", "<U+A9F8>", "<U+AA58>", "<U+ABF8>",
       "<U+FF18>", "<U+104A8>", "<U+10D38>", "<U+1106E>", "<U+110F8>",
       "<U+1113E>", "<U+111D8>", "<U+112F8>", "<U+11458>", "<U+114D8>",
       "<U+11658>", "<U+116C8>", "<U+11738>", "<U+118E8>", "<U+11958>",
       "<U+11C58>", "<U+11D58>", "<U+11DA8>", "<U+16A68>", "<U+16AC8>",
       "<U+16B58>", "<U+1D7D6>", "<U+1D7E0>", "<U+1D7EA>", "<U+1D7F4>",
       "<U+1D7FE>", "<U+1E148>", "<U+1E2F8>", "<U+1E958>", "<U+1FBF8>"},
      {
       "9", "<U+0669>", "<U+06F9>", "<U+07C9>", "<U+096F>", "<U+09EF>",
       "<U+0A6F>", "<U+0AEF>", "<U+0B6F>", "<U+0BEF>", "<U+0C6F>", "<U+0CEF>",
       "<U+0D6F>", "<U+0DEF>", "<U+0E59>", "<U+0ED9>", "<U+0F29>", "<U+1049>",
       "<U+1099>", "<U+17E9>", "<U+1819>", "<U+194F>", "<U+19D9>", "<U+1A89>",
       "<U+1A99>", "<U+1B59>", "<U+1BB9>", "<U+1C49>", "<U+1C59>", "<U+A629>",
       "<U+A8D9>", "<U+A909>", "<U+A9D9>", "<U+A9F9>", "<U+AA59>", "<U+ABF9>",
       "<U+FF19>", "<U+104A9>", "<U+10D39>", "<U+1106F>", "<U+110F9>",
       "<U+1113F>", "<U+111D9>", "<U+112F9>", "<U+11459>", "<U+114D9>",
       "<U+11659>", "<U+116C9>", "<U+11739>", "<U+118E9>", "<U+11959>",
       "<U+11C59>", "<U+11D59>", "<U+11DA9>", "<U+16A69>", "<U+16AC9>",
       "<U+16B59>", "<U+1D7D7>", "<U+1D7E1>", "<U+1D7EB>", "<U+1D7F5>",
       "<U+1D7FF>", "<U+1E149>", "<U+1E2F9>", "<U+1E959>", "<U+1FBF9>"}
    >>

\* str.upper, character by character: each character that str.upper
\* changes, with the characters it becomes (one, two or three).
UpperCase ==
    {
     <<"a", <<"A">>>>, <<"b", <<"B">>>>, <<"c", <<"C">>>>, <<"d", <<"D">>>>,
     <<"e", <<"E">>>>, <<"f", <<"F">>>>, <<"g", <<"G">>>>, <<"h", <<"H">>>>,
     <<"i", <<"I">>>>, <<"j", <<"J">>>>, <<"k", <<"K">>>>, <<"l", <<"L">>>>,
     <<"m", <<"M">>>>, <<"n", <<"N">>>>, <<"o", <<"O">>>>, <<"p", <<"P">>>>,
     <<"q", <<"Q">>>>, <<"r", <<"R">>>>, <<"s", <<"S">>>>, <<"t", <<"T">>>>,
     <<"u", <<"U">>>>, <<"v", <<"V">>>>, <<"w", <<"W">>>>, <<"x", <<"X">>>>,
     <<"y", <<"Y">>>>, <<"z", <<"Z">>>>, <<"<U+00B5>", <<"<U+039C>">>>>,
     <<"<U+00DF>", <<"S","S">>>>, <<"<U+00E0>", <<"<U+00C0>">>>>,
     <<"<U+00E1>", <<"<U+00C1>">>>>, <<"<U+00E2>", <<"<U+00C2>">>>>,
     <<"<U+00E3>", <<"<U+00C3>">>>>, <<"<U+00E4>", <<"<U+00C4>">>>>,
     <<"<U+00E5>", <<"<U+00C5>">>>>, <<"<U+00E6>", <<"<U+00C6>">>>>,
     <<"<U+00E7>", <<"<U+00C7>">>>>, <<"<U+00E8>", <<"<U+00C8>">>>>,
     <<"<U+00E9>", <<"<U+00C9>">>>>, <<"<U+00EA>", <<"<U+00CA>">>>>,
     <<"<U+00EB>", <<"<U+00CB>">>>>, <<"<U+00EC>", <<"<U+00CC>">>>>,
     <<"<U+00ED>", <<"<U+00CD>">>>>, <<"<U+00EE>", <<"<U+00CE>">>>>,
     <<"<U+00EF>", <<"<U+00CF>">>>>, <<"<U+00F0>", <<"<U+00D0>">>>>,
     <<"<U+00F1>", <<"<U+00D1>">>>>, <<"<U+00F2>", <<"<U+00D2>">>>>,
     <<"<U+00F3>", <<"<U+00D3>">>>>, <<"<U+00F4>", <<"<U+00D4>">>>>,
     <<"<U+00F5>", <<"<U+00D5>">>>>, <<"<U+00F6>", <<"<U+00D6>">>>>,
     <<"<U+00F8>", <<"<U+00D8>">>>>, <<"<U+00F9>", <<"<U+00D9>">>>>,
     <<"<U+00FA>", <<"<U+00DA>">>>>, <<"<U+00FB>", <<"<U+00DB>">>>>,
     <<"<U+00FC>", <<"<U+00DC>">>>>, <<"<U+00FD>", <<"<U+00DD>">>>>,
     <<"<U+00FE>", <<"<U+00DE>">>>>, <<"<U+00FF>", <<"<U+0178>">>>>,
     <<"<U+0101>", <<"<U+0100>">>>>, <<"<U+0103>", <<"<U+0102>">>>>,
     <<"<U+0105>", <<"<U+0104>">>>>, <<"<U+0107>", <<"<U+0106>">>>>,
     <<"<U+0109>", <<"<U+0108>">>>>, <<"<U+010B>", <<"<U+010A>">>>>,
     <<"<U+010D>", <<"<U+010C>">>>>, <<"<U+010F>", <<"<U+010E>">>>>,
     <<"<U+0111>", <<"<U+0110>">>>>, <<"<U+0113>", <<"<U+0112>">>>>,
     <<"<U+0115>", <<"<U+0114>">>>>, <<"<U+0117>", <<"<U+0116>">>>>,
     <<"<U+0119>", <<"<U+0118>">>>>, <<"<U+011B>", <<"<U+011A>">>>>,
     <<"<U+011D>", <<"<U+011C>">>>>, <<"<U+011F>", <<"<U+011E>">>>>,
     <<"<U+0121>", <<"<U+0120>">>>>, <<"<U+0123>", <<"<U+0122>">>>>,
     <<"<U+0125>", <<"<U+0124>">>>>, <<"<U+0127>", <<"<U+0126>">>>>,
     <<"<U+0129>", <<"<U+0128>">>>>, <<"<U+012B>", <<"<U+012A>">>>>,
     <<"<U+012D>", <<"<U+012C>">>>>, <<"<U+012F>", <<"<U+012E>">>>>,
     <<"<U+0131>", <<"I">>>>, <<"<U+0133>", <<"<U+0132>">>>>,
     <<"<U+0135>", <<"<U+0134>">>>>, <<"<U+0137>", <<"<U+0136>">>>>,
     <<"<U+013A>", <<"<U+0139>">>>>, <<"<U+013C>", <<"<U+013B>">>>>,
     <<"<U+013E>", <<"<U+013D>">>>>, <<"<U+0140>", <<"<U+013F>">>>>,
     <<"<U+0142>", <<"<U+0141>">>>>, <<"<U+0144>", <<"<U+0143>">>>>,
     <<"<U+0146>", <<"<U+0145>">>>>, <<"<U+0148>", <<"<U+0147>">>>>,
     <<"<U+0149>", <<"<U+02BC>","N">>>>, <<"<U+014B>", <<"<U+014A>">>>>,
     <<"<U+014D>", <<"<U+014C>">>>>, <<"<U+014F>", <<"<U+014E>">>>>,
     <<"<U+0151>", <<"<U+0150>">>>>, <<"<U+0153>", <<"<U+0152>">>>>,
     <<"<U+0155>", <<"<U+0154>">>>>, <<"<U+0157>", <<"<U+0156>">>>>,
     <<"<U+0159>", <<"<U+0158>">>>>, <<"<U+015B>", <<"<U+015A>">>>>,
     <<"<U+015D>", <<"<U+015C>">>>>, <<"<U+015F>", <<"<U+015E>">>>>,
     <<"<U+0161>", <<"<U+0160>">>>>, <<"<U+0163>", <<"<U+0162>">>>>,
     <<"<U+0165>", <<"<U+0164>">>>>, <<"<U+0167>", <<"<U+0166>">>>>,
     <<"<U+0169>", <<"<U+0168>">>>>, <<"<U+016B>", <<"<U+016A>">>>>,
     <<"<U+016D>", <<"<U+016C>">>>>, <<"<U+016F>", <<"<U+016E>">>>>,
     <<"<U+0171>", <<"<U+0170>">>>>, <<"<U+0173>", <<"<U+0172>">>>>,
     <<"<U+0175>", <<"<U+0174>">>>>, <<"<U+0177>", <<"<U+0176>">>>>,
     <<"<U+017A>", <<"<U+0179>">>>>, <<"<U+017C>", <<"<U+017B>">>>>,
     <<"<U+017E>", <<"<U+017D>">>>>, <<"<U+017F>", <<"S">>>>,
     <<"<U+0180>", <<"<U+0243>">>>>, <<"<U+0183>", <<"<U+0182>">>>>,
     <<"<U+0185>", <<"<U+0184>">>>>, <<"<U+0188>", <<"<U+0187>">>>>,
     <<"<U+018C>", <<"<U+018B>">>>>, <<"<U+0192>", <<"<U+0191>">>>>,
     <<"<U+0195>", <<"<U+01F6>">>>>, <<"<U+0199>", <<"<U+0198>">>>>,
     <<"<U+019A>", <<"<U+023D>">>>>, <<"<U+019E>", <<"<U+0220>">>>>,
     <<"<U+01A1>", <<"<U+01A0>">>>>, <<"<U+01A3>", <<"<U+01A2>">>>>,
     <<"<U+01A5>", <<"<U+01A4>">>>>, <<"<U+01A8>", <<"<U+01A7>">>>>,
     <<"<U+01AD>", <<"<U+01AC>">>>>, <<"<U+01B0>", <<"<U+01AF>">>>>,
     <<"<U+01B4>", <<"<U+01B3>">>>>, <<"<U+01B6>", <<"<U+01B5>">>>>,
     <<"<U+01B9>", <<"<U+01B8>">>>>, <<"<U+01BD>", <<"<U+01BC>">>>>,
     <<"<U+01BF>", <<"<U+01F7>">>>>, <<"<U+01C5>", <<"<U+01C4>">>>>,
     <<"<U+01C6>", <<"<U+01C4>">>>>, <<"<U+01C8>", <<"<U+01C7>">>>>,
     <<"<U+01C9>", <<"<U+01C7>">>>>, <<"<U+01CB>", <<"<U+01CA>">>>>,
     <<"<U+01CC>", <<"<U+01CA>">>>>, <<"<U+01CE>", <<"<U+01CD>">>>>,
     <<"<U+01D0>", <<"<U+01CF>">>>>, <<"<U+01D2>", <<"<U+01D1>">>>>,
     <<"<U+01D4>", <<"<U+01D3>">>>>, <<"<U+01D6>", <<"<U+01D5>">>>>,
     <<"<U+01D8>", <<"<U+01D7>">>>>, <<"<U+01DA>", <<"<U+01D9>">>>>,
     <<"<U+01DC>", <<"<U+01DB>">>>>, <<"<U+01DD>", <<"<U+018E>">>>>,
     <<"<U+01DF>", <<"<U+01DE>">>>>, <<"<U+01E1>", <<"<U+01E0>">>>>,
     <<"<U+01E3>", <<"<U+01E2>">>>>, <<"<U+01E5>", <<"<U+01E4>">>>>,
     <<"<U+01E7>", <<"<U+01E6>">>>>, <<"<U+01E9>", <<"<U+01E8>">>>>,
     <<"<U+01EB>", <<"<U+01EA>">>>>, <<"<U+01ED>", <<"<U+01EC>">>>>,
     <<"<U+01EF>", <<"<U+01EE>">>>>, <<"<U+01F0>", <<"J","<U+030C>">>>>,
     <<"<U+01F2>", <<"<U+01F1>">>>>, <<"<U+01F3>", <<"<U+01F1>">>>>,
     <<"<U+01F5>", <<"<U+01F4>">>>>, <<"<U+01F9>", <<"<U+01F8>">>>>,
     <<"<U+01FB>", <<"<U+01FA>">>>>, <<"<U+01FD>", <<"<U+01FC>">>>>,
     <<"<U+01FF>", <<"<U+01FE>">>>>, <<"<U+0201>", <<"<U+0200>">>>>,
     <<"<U+0203>", <<"<U+0202>">>>>, <<"<U+0205>", <<"<U+0204>">>>>,
     <<"<U+0207>", <<"<U+0206>">>>>, <<"<U+0209>", <<"<U+0208>">>>>,
     <<"<U+020B>", <<"<U+020A>">>>>, <<"<U+020D>", <<"<U+020C>">>>>,
     <<"<U+020F>", <<"<U+020E>">>>>, <<"<U+0211>", <<"<U+0210>">>>>,
     <<"<U+0213>", <<"<U+0212>">>>>, <<"<U+0215>", <<"<U+0214>">>>>,
     <<"<U+0217>", <<"<U+0216>">>>>, <<"<U+0219>", <<"<U+0218>">>>>,
     <<"<U+021B>", <<"<U+021A>">>>>, <<"<U+021D>", <<"<U+021C>">>>>,
     <<"<U+021F>", <<"<U+021E>">>>>, <<"<U+0223>", <<"<U+0222>">>>>,
     <<"<U+0225>", <<"<U+0224>">>>>, <<"<U+0227>", <<"<U+0226>">>>>,
     <<"<U+0229>", <<"<U+0228>">>>>, <<"<U+022B>", <<"<U+022A>">>>>,
     <<"<U+022D>", <<"<U+022C>">>>>, <<"<U+022F>", <<"<U+022E>">>>>,
     <<"<U+0231>", <<"<U+0230>">>>>, <<"<U+0233>", <<"<U+0232>">>>>,
     <<"<U+023C>", <<"<U+023B>">>>>, <<"<U+023F>", <<"<U+2C7E>">>>>,
     <<"<U+0240>", <<"<U+2C7F>">>>>, <<"<U+0242>", <<"<U+0241>">>>>,
     <<"<U+0247>", <<"<U+0246>">>>>, <<"<U+0249>", <<"<U+0248>">>>>,
     <<"<U+024B>", <<"<U+024A>">>>>, <<"<U+024D>", <<"<U+024C>">>>>,
     <<"<U+024F>", <<"<U+024E>">>>>, <<"<U+0250>", <<"<U+2C6F>">>>>,
     <<"<U+0251>", <<"<U+2C6D>">>>>, <<"<U+0252>", <<"<U+2C70>">>>>,
     <<"<U+0253>", <<"<U+0181>">>>>, <<"<U+0254>", <<"<U+0186>">>>>,
     <<"<U+0256>", <<"<U+0189>">>>>, <<"<U+0257>", <<"<U+018A>">>>>,
     <<"<U+0259>", <<"<U+018F>">>>>, <<"<U+025B>", <<"<U+0190>">>>>,
     <<"<U+025C>", <<"<U+A7AB>">>>>, <<"<U+0260>", <<"<U+0193>">>>>,
     <<"<U+0261>", <<"<U+A7AC>">>>>, <<"<U+0263>", <<"<U+0194>">>>>,
     <<"<U+0265>", <<"<U+A78D>">>>>, <<"<U+0266>", <<"<U+A7AA>">>>>,
     <<"<U+0268>", <<"<U+0197>">>>>, <<"<U+0269>", <<"<U+0196>">>>>,
     <<"<U+026A>", <<"<U+A7AE>">>>>, <<"<U+026B>", <<"<U+2C62>">>>>,
     <<"<U+026C>", <<"<U+A7AD>">>>>, <<"<U+026F>", <<"<U+019C>">>>>,
     <<"<U+0271>", <<"<U+2C6E>">>>>, <<"<U+0272>", <<"<U+019D>">>>>,
     <<"<U+0275>", <<"<U+019F>">>>>, <<"<U+027D>", <<"<U+2C64>">>>>,
     <<"<U+0280>", <<"<U+01A6>">>>>, <<"<U+0282>", <<"<U+A7C5>">>>>,
     <<"<U+0283>", <<"<U+01A9>">>>>, <<"<U+0287>", <<"<U+A7B1>">>>>,
     <<"<U+0288>", <<"<U+01AE>">>>>, <<"<U+0289>", <<"<U+0244>">>>>,
     <<"<U+028A>", <<"<U+01B1>">>>>, <<"<U+028B>", <<"<U+01B2>">>>>,
     <<"<U+028C>", <<"<U+0245>">>>>, <<"<U+0292>", <<"<U+01B7>">>>>,
     <<"<U+029D>", <<"<U+A7B2>">>>>, <<"<U+029E>", <<"<U+A7B0>">>>>,
     <<"<U+0345>", <<"<U+0399>">>>>, <<"<U+0371>", <<"<U+0370>">>>>,
     <<"<U+0373>", <<"<U+0372>">>>>, <<"<U+0377>", <<"<U+0376>">>>>,
     <<"<U+037B>", <<"<U+03FD>">>>>, <<"<U+037C>", <<"<U+03FE>">>>>,
     <<"<U+037D>", <<"<U+03FF>">>>>,
     <<"<U+0390>", <<"<U+0399>","<U+0308>","<U+0301>">>>>,
     <<"<U+03AC>", <<"<U+0386>">>>>, <<"<U+03AD>", <<"<U+0388>">>>>,
     <<"<U+03AE>", <<"<U+0389>">>>>, <<"<U+03AF>", <<"<U+038A>">>>>,
     <<"<U+03B0>", <<"<U+03A5>","<U+0308>","<U+0301>">>>>,
     <<"<U+03B1>", <<"<U+0391>">>>>, <<"<U+03B2>", <<"<U+0392>">>>>,
     <<"<U+03B3>", <<"<U+0393>">>>>, <<"<U+03B4>", <<"<U+0394>">>>>,
     <<"<U+03B5>", <<"<U+0395>">>>>, <<"<U+03B6>", <<"<U+0396>">>>>,
     <<"<U+03B7>", <<"<U+0397>">>>>, <<"<U+03B8>", <<"<U+0398>">>>>,
     <<"<U+03B9>", <<"<U+0399>">>>>, <<"<U+03BA>", <<"<U+039A>">>>>,
     <<"<U+03BB>", <<"<U+039B>">>>>, <<"<U+03BC>", <<"<U+039C>">>>>,
     <<"<U+03BD>", <<"<U+039D>">>>>, <<"<U+03BE>", <<"<U+039E>">>>>,
     <<"<U+03BF>", <<"<U+039F>">>>>, <<"<U+03C0>", <<"<U+03A0>">>>>,
     <<"<U+03C1>", <<"<U+03A1>">>>>, <<"<U+03C2>", <<"<U+03A3>">>>>,
     <<"<U+03C3>", <<"<U+03A3>">>>>, <<"<U+03C4>", <<"<U+03A4>">>>>,
     <<"<U+03C5>", <<"<U+03A5>">>>>, <<"<U+03C6>", <<"<U+03A6>">>>>,
     <<"<U+03C7>", <<"<U+03A7>">>>>, <<"<U+03C8>", <<"<U+03A8>">>>>,
     <<"<U+03C9>", <<"<U+03A9>">>>>, <<"<U+03CA>", <<"<U+03AA>">>>>,
     <<"<U+03CB>", <<"<U+03AB>">>>>, <<"<U+03CC>", <<"<U+038C>">>>>,
     <<"<U+03CD>", <<"<U+038E>">>>>, <<"<U+03CE>", <<"<U+038F>">>>>,
     <<"<U+03D0>", <<"<U+0392>">>>>, <<"<U+03D1>", <<"<U+0398>">>>>,
     <<"<U+03D5>", <<"<U+03A6>">>>>, <<"<U+03D6>", <<"<U+03A0>">>>>,
     <<"<U+03D7>", <<"<U+03CF>">>>>, <<"<U+03D9>", <<"<U+03D8>">>>>,
     <<"<U+03DB>", <<"<U+03DA>">>>>, <<"<U+03DD>", <<"<U+03DC>">>>>,
     <<"<U+03DF>", <<"<U+03DE>">>>>, <<"<U+03E1>", <<"<U+03E0>">>>>,
     <<"<U+03E3>", <<"<U+03E2>">>>>, <<"<U+03E5>", <<"<U+03E4>">>>>,
     <<"<U+03E7>", <<"<U+03E6>">>>>, <<"<U+03E9>", <<"<U+03E8>">>>>,
     <<"<U+03EB>", <<"<U+03EA>">>>>, <<"<U+03ED>", <<"<U+03EC>">>>>,
     <<"<U+03EF>", <<"<U+03EE>">>>>, <<"<U+03F0>", <<"<U+039A>">>>>,
     <<"<U+03F1>", <<"<U+03A1>">>>>, <<"<U+03F2>", <<"<U+03F9>">>>>,
     <<"<U+03F3>", <<"<U+037F>">>>>, <<"<U+03F5>", <<"<U+0395>">>>>,
     <<"<U+03F8>", <<"<U+03F7>">>>>, <<"<U+03FB>", <<"<U+03FA>">>>>,
     <<"<U+0430>", <<"<U+0410>">>>>, <<"<U+0431>", <<"<U+0411>">>>>,
     <<"<U+0432>", <<"<U+0412>">>>>, <<"<U+0433>", <<"<U+0413>">>>>,
     <<"<U+0434>", <<"<U+0414>">>>>, <<"<U+0435>", <<"<U+0415>">>>>,
     <<"<U+0436>", <<"<U+0416>">>>>, <<"<U+0437>", <<"<U+0417>">>>>,
     <<"<U+0438>", <<"<U+0418>">>>>, <<"<U+0439>", <<"<U+0419>">>>>,
     <<"<U+043A>", <<"<U+041A>">>>>, <<"<U+043B>", <<"<U+041B>">>>>,
     <<"<U+043C>", <<"<U+041C>">>>>, <<"<U+043D>", <<"<U+041D>">>>>,
     <<"<U+043E>", <<"<U+041E>">>>>, <<"<U+043F>", <<"<U+041F>">>>>,
     <<"<U+0440>", <<"<U+0420>">>>>, <<"<U+0441>", <<"<U+0421>">>>>,
     <<"<U+0442>", <<"<U+0422>">>>>, <<"<U+0443>", <<"<U+0423>">>>>,
     <<"<U+0444>", <<"<U+0424>">>>>, <<"<U+0445>", <<"<U+0425>">>>>,
     <<"<U+0446>", <<"<U+0426>">>>>, <<"<U+0447>", <<"<U+0427>">>>>,
     <<"<U+0448>", <<"<U+0428>">>>>, <<"<U+0449>", <<"<U+0429>">>>>,
     <<"<U+044A>", <<"<U+042A>">>>>, <<"<U+044B>", <<"<U+042B>">>>>,
     <<"<U+044C>", <<"<U+042C>">>>>, <<"<U+044D>", <<"<U+042D>">>>>,
     <<"<U+044E>", <<"<U+042E>">>>>, <<"<U+044F>", <<"<U+042F>">>>>,
     <<"<U+0450>", <<"<U+0400>">>>>, <<"<U+0451>", <<"<U+0401>">>>>,
     <<"<U+0452>", <<"<U+0402>">>>>, <<"<U+0453>", <<"<U+0403>">>>>,
     <<"<U+0454>", <<"<U+0404>">>>>, <<"<U+0455>", <<"<U+0405>">>>>,
     <<"<U+0456>", <<"<U+0406>">>>>, <<"<U+0457>", <<"<U+0407>">>>>,
     <<"<U+0458>", <<"<U+0408>">>>>, <<"<U+0459>", <<"<U+0409>">>>>,
     <<"<U+045A>", <<"<U+040A>">>>>, <<"<U+045B>", <<"<U+040B>">>>>,
     <<"<U+045C>", <<"<U+040C>">>>>, <<"<U+045D>", <<"<U+040D>">>>>,
     <<"<U+045E>", <<"<U+040E>">>>>, <<"<U+045F>", <<"<U+040F>">>>>,
     <<"<U+0461>", <<"<U+0460>">>>>, <<"<U+0463>", <<"<U+0462>">>>>,
     <<"<U+0465>", <<"<U+0464>">>>>, <<"<U+0467>", <<"<U+0466>">>>>,
     <<"<U+0469>", <<"<U+0468>">>>>, <<"<U+046B>", <<"<U+046A>">>>>,
     <<"<U+046D>", <<"<U+046C>">>>>, <<"<U+046F>", <<"<U+046E>">>>>,
     <<"<U+0471>", <<"<U+0470>">>>>, <<"<U+0473>", <<"<U+0472>">>>>,
     <<"<U+0475>", <<"<U+0474>">>>>, <<"<U+0477>", <<"<U+0476>">>>>,
     <<"<U+0479>", <<"<U+0478>">>>>, <<"<U+047B>", <<"<U+047A>">>>>,
     <<"<U+047D>", <<"<U+047C>">>>>, <<"<U+047F>", <<"<U+047E>">>>>,
     <<"<U+0481>", <<"<U+0480>">>>>, <<"<U+048B>", <<"<U+048A>">>>>,
     <<"<U+048D>", <<"<U+048C>">>>>, <<"<U+048F>", <<"<U+048E>">>>>,
     <<"<U+0491>", <<"<U+0490>">>>>, <<"<U+0493>", <<"<U+0492>">>>>,
     <<"<U+0495>", <<"<U+0494>">>>>, <<"<U+0497>", <<"<U+0496>">>>>,
     <<"<U+0499>", <<"<U+0498>">>>>, <<"<U+049B>", <<"<U+049A>">>>>,
     <<"<U+049D>", <<"<U+049C>">>>>, <<"<U+049F>", <<"<U+049E>">>>>,
     <<"<U+04A1>", <<"<U+04A0>">>>>, <<"<U+04A3>", <<"<U+04A2>">>>>,
     <<"<U+04A5>", <<"<U+04A4>">>>>, <<"<U+04A7>", <<"<U+04A6>">>>>,
     <<"<U+04A9>", <<"<U+04A8>">>>>, <<"<U+04AB>", <<"<U+04AA>">>>>,
     <<"<U+04AD>", <<"<U+04AC>">>>>, <<"<U+04AF>", <<"<U+04AE>">>>>,
     <<"<U+04B1>", <<"<U+04B0>">>>>, <<"<U+04B3>", <<"<U+04B2>">>>>,
     <<"<U+04B5>", <<"<U+04B4>">>>>, <<"<U+04B7>", <<"<U+04B6>">>>>,
     <<"<U+04B9>", <<"<U+04B8>">>>>, <<"<U+04BB>", <<"<U+04BA>">>>>,
     <<"<U+04BD>", <<"<U+04BC>">>>>, <<"<U+04BF>", <<"<U+04BE>">>>>,
     <<"<U+04C2>", <<"<U+04C1>">>>>, <<"<U+04C4>", <<"<U+04C3>">>>>,
     <<"<U+04C6>", <<"<U+04C5>">>>>, <<"<U+04C8>", <<"<U+04C7>">>>>,
     <<"<U+04CA>", <<"<U+04C9>">>>>, <<"<U+04CC>", <<"<U+04CB>">>>>,
     <<"<U+04CE>", <<"<U+04CD>">>>>, <<"<U+04CF>", <<"<U+04C0>">>>>,
     <<"<U+04D1>", <<"<U+04D0>">>>>, <<"<U+04D3>", <<"<U+04D2>">>>>,
     <<"<U+04D5>", <<"<U+04D4>">>>>, <<"<U+04D7>", <<"<U+04D6>">>>>,
     <<"<U+04D9>", <<"<U+04D8>">>>>, <<"<U+04DB>", <<"<U+04DA>">>>>,
     <<"<U+04DD>", <<"<U+04DC>">>>>, <<"<U+04DF>", <<"<U+04DE>">>>>,
     <<"<U+04E1>", <<"<U+04E0>">>>>, <<"<U+04E3>", <<"<U+04E2>">>>>,
     <<"<U+04E5>", <<"<U+04E4>">>>>, <<"<U+04E7>", <<"<U+04E6>">>>>,
     <<"<U+04E9>", <<"<U+04E8>">>>>, <<"<U+04EB>", <<"<U+04EA>">>>>,
     <<"<U+04ED>", <<"<U+04EC>">>>>, <<"<U+04EF>", <<"<U+04EE>">>>>,
     <<"<U+04F1>", <<"<U+04F0>">>>>, <<"<U+04F3>", <<"<U+04F2>">>>>,
     <<"<U+04F5>", <<"<U+04F4>">>>>, <<"<U+04F7>", <<"<U+04F6>">>>>,
     <<"<U+04F9>", <<"<U+04F8>">>>>, <<"<U+04FB>", <<"<U+04FA>">>>>,
     <<"<U+04FD>", <<"<U+04FC>">>>>, <<"<U+04FF>", <<"<U+04FE>">>>>,
     <<"<U+0501>", <<"<U+0500>">>>>, <<"<U+0503>", <<"<U+0502>">>>>,
     <<"<U+0505>", <<"<U+0504>">>>>, <<"<U+0507>", <<"<U+0506>">>>>,
     <<"<U+0509>", <<"<U+0508>">>>>, <<"<U+050B>", <<"<U+050A>">>>>,
     <<"<U+050D>", <<"<U+050C>">>>>, <<"<U+050F>", <<"<U+050E>">>>>,
     <<"<U+0511>", <<"<U+0510>">>>>, <<"<U+0513>", <<"<U+0512>">>>>,
     <<"<U+0515>", <<"<U+0514>">>>>, <<"<U+0517>", <<"<U+0516>">>>>,
     <<"<U+0519>", <<"<U+0518>">>>>, <<"<U+051B>", <<"<U+051A>">>>>,
     <<"<U+051D>", <<"<U+051C>">>>>, <<"<U+051F>", <<"<U+051E>">>>>,
     <<"<U+0521>", <<"<U+0520>">>>>, <<"<U+0523>", <<"<U+0522>">>>>,
     <<"<U+0525>", <<"<U+0524>">>>>, <<"<U+0527>", <<"<U+0526>">>>>,
     <<"<U+0529>", <<"<U+0528>">>>>, <<"<U+052B>", <<"<U+052A>">>>>,
     <<"<U+052D>", <<"<U+052C>">>>>, <<"<U+052F>", <<"<U+052E>">>>>,
     <<"<U+0561>", <<"<U+0531>">>>>, <<"<U+0562>", <<"<U+0532>">>>>,
     <<"<U+0563>", <<"<U+0533>">>>>, <<"<U+0564>", <<"<U+0534>">>>>,
     <<"<U+0565>", <<"<U+0535>">>>>, <<"<U+0566>", <<"<U+0536>">>>>,
     <<"<U+0567>", <<"<U+0537>">>>>, <<"<U+0568>", <<"<U+0538>">>>>,
     <<"<U+0569>", <<"<U+0539>">>>>, <<"<U+056A>", <<"<U+053A>">>>>,
     <<"<U+056B>", <<"<U+053B>">>>>, <<"<U+056C>", <<"<U+053C>">>>>,
     <<"<U+056D>", <<"<U+053D>">>>>, <<"<U+056E>", <<"<U+053E>">>>>,
     <<"<U+056F>", <<"<U+053F>">>>>, <<"<U+0570>", <<"<U+0540>">>>>,
     <<"<U+0571>", <<"<U+0541>">>>>, <<"<U+0572>", <<"<U+0542>">>>>,
     <<"<U+0573>", <<"<U+0543>">>>>, <<"<U+0574>", <<"<U+0544>">>>>,
     <<"<U+0575>", <<"<U+0545>">>>>, <<"<U+0576>", <<"<U+0546>">>>>,
     <<"<U+0577>", <<"<U+0547>">>>>, <<"<U+0578>", <<"<U+0548>">>>>,
     <<"<U+0579>", <<"<U+0549>">>>>, <<"<U+057A>", <<"<U+054A>">>>>,
     <<"<U+057B>", <<"<U+054B>">>>>, <<"<U+057C>", <<"<U+054C>">>>>,
     <<"<U+057D>", <<"<U+054D>">>>>, <<"<U+057E>", <<"<U+054E>">>>>,
     <<"<U+057F>", <<"<U+054F>">>>>, <<"<U+0580>", <<"<U+0550>">>>>,
     <<"<U+0581>", <<"<U+0551>">>>>, <<"<U+0582>", <<"<U+0552>">>>>,
     <<"<U+0583>", <<"<U+0553>">>>>, <<"<U+0584>", <<"<U+0554>">>>>,
     <<"<U+0585>", <<"<U+0555>">>>>, <<"<U+0586>", <<"<U+0556>">>>>,
     <<"<U+0587>", <<"<U+0535>","<U+0552>">>>>,
     <<"<U+10D0>", <<"<U+1C90>">>>>, <<"<U+10D1>", <<"<U+1C91>">>>>,
     <<"<U+10D2>", <<"<U+1C92>">>>>, <<"<U+10D3>", <<"<U+1C93>">>>>,
     <<"<U+10D4>", <<"<U+1C94>">>>>, <<"<U+10D5>", <<"<U+1C95>">>>>,
     <<"<U+10D6>", <<"<U+1C96>">>>>, <<"<U+10D7>", <<"<U+1C97>">>>>,
     <<"<U+10D8>", <<"<U+1C98>">>>>, <<"<U+10D9>", <<"<U+1C99>">>>>,
     <<"<U+10DA>", <<"<U+1C9A>">>>>, <<"<U+10DB>", <<"<U+1C9B>">>>>,
     <<"<U+10DC>", <<"<U+1C9C>">>>>, <<"<U+10DD>", <<"<U+1C9D>">>>>,
     <<"<U+10DE>", <<"<U+1C9E>">>>>, <<"<U+10DF>", <<"<U+1C9F>">>>>,
     <<"<U+10E0>", <<"<U+1CA0>">>>>, <<"<U+10E1>", <<"<U+1CA1>">>>>,
     <<"<U+10E2>", <<"<U+1CA2>">>>>, <<"<U+10E3>", <<"<U+1CA3>">>>>,
     <<"<U+10E4>", <<"<U+1CA4>">>>>, <<"<U+10E5>", <<"<U+1CA5>">>>>,
     <<"<U+10E6>", <<"<U+1CA6>">>>>, <<"<U+10E7>", <<"<U+1CA7>">>>>,
     <<"<U+10E8>", <<"<U+1CA8>">>>>, <<"<U+10E9>", <<"<U+1CA9>">>>>,
     <<"<U+10EA>", <<"<U+1CAA>">>>>, <<"<U+10EB>", <<"<U+1CAB>">>>>,
     <<"<U+10EC>", <<"<U+1CAC>">>>>, <<"<U+10ED>", <<"<U+1CAD>">>>>,
     <<"<U+10EE>", <<"<U+1CAE>">>>>, <<"<U+10EF>", <<"<U+1CAF>">>>>,
     <<"<U+10F0>", <<"<U+1CB0>">>>>, <<"<U+10F1>", <<"<U+1CB1>">>>>,
     <<"<U+10F2>", <<"<U+1CB2>">>>>, <<"<U+10F3>", <<"<U+1CB3>">>>>,
     <<"<U+10F4>", <<"<U+1CB4>">>>>, <<"<U+10F5>", <<"<U+1CB5>">>>>,
     <<"<U+10F6>", <<"<U+1CB6>">>>>, <<"<U+10F7>", <<"<U+1CB7>">>>>,
     <<"<U+10F8>", <<"<U+1CB8>">>>>, <<"<U+10F9>", <<"<U+1CB9>">>>>,
     <<"<U+10FA>", <<"<U+1CBA>">>>>, <<"<U+10FD>", <<"<U+1CBD>">>>>,
     <<"<U+10FE>", <<"<U+1CBE>">>>>, <<"<U+10FF>", <<"<U+1CBF>">>>>,
     <<"<U+13F8>", <<"<U+13F0>">>>>, <<"<U+13F9>", <<"<U+13F1>">>>>,
     <<"<U+13FA>", <<"<U+13F2>">>>>, <<"<U+13FB>", <<"<U+13F3>">>>>,
     <<"<U+13FC>", <<"<U+13F4>">>>>, <<"<U+13FD>", <<"<U+13F5>">>>>,
     <<"<U+1C80>", <<"<U+0412>">>>>, <<"<U+1C81>", <<"<U+0414>">>>>,
     <<"<U+1C82>", <<"<U+041E>">>>>, <<"<U+1C83>", <<"<U+0421>">>>>,
     <<"<U+1C84>", <<"<U+0422>">>>>, <<"<U+1C85>", <<"<U+0422>">>>>,
     <<"<U+1C86>", <<"<U+042A>">>>>, <<"<U+1C87>", <<"<U+0462>">>>>,
     <<"<U+1C88>", <<"<U+A64A>">>>>, <<"<U+1D79>", <<"<U+A77D>">>>>,
     <<"<U+1D7D>", <<"<U+2C63>">>>>, <<"<U+1D8E>", <<"<U+A7C6>">>>>,
     <<"<U+1E01>", <<"<U+1E00>">>>>, <<"<U+1E03>", <<"<U+1E02>">>>>,
     <<"<U+1E05>", <<"<U+1E04>">>>>, <<"<U+1E07>", <<"<U+1E06>">>>>,
     <<"<U+1E09>", <<"<U+1E08>">>>>, <<"<U+1E0B>", <<"<U+1E0A>">>>>,
     <<"<U+1E0D>", <<"<U+1E0C>">>>>, <<"<U+1E0F>", <<"<U+1E0E>">>>>,
     <<"<U+1E11>", <<"<U+1E10>">>>>, <<"<U+1E13>", <<"<U+1E12>">>>>,
     <<"<U+1E15>", <<"<U+1E14>">>>>, <<"<U+1E17>", <<"<U+1E16>">>>>,
     <<"<U+1E19>", <<"<U+1E18>">>>>, <<"<U+1E1B>", <<"<U+1E1A>">>>>,
     <<"<U+1E1D>", <<"<U+1E1C>">>>>, <<"<U+1E1F>", <<"<U+1E1E>">>>>,
     <<"<U+1E21>", <<"<U+1E20>">>>>, <<"<U+1E23>", <<"<U+1E22>">>>>,
     <<"<U+1E25>", <<"<U+1E24>">>>>, <<"<U+1E27>", <<"<U+1E26>">>>>,
     <<"<U+1E29>", <<"<U+1E28>">>>>, <<"<U+1E2B>", <<"<U+1E2A>">>>>,
     <<"<U+1E2D>", <<"<U+1E2C>">>>>, <<"<U+1E2F>", <<"<U+1E2E>">>>>,
     <<"<U+1E31>", <<"<U+1E30>">>>>, <<"<U+1E33>", <<"<U+1E32>">>>>,
     <<"<U+1E35>", <<"<U+1E34>">>>>, <<"<U+1E37>", <<"<U+1E36>">>>>,
     <<"<U+1E39>", <<"<U+1E38>">>>>, <<"<U+1E3B>", <<"<U+1E3A>">>>>,
     <<"<U+1E3D>", <<"<U+1E3C>">>>>, <<"<U+1E3F>", <<"<U+1E3E>">>>>,
     <<"<U+1E41>", <<"<U+1E40>">>>>, <<"<U+1E43>", <<"<U+1E42>">>>>,
     <<"<U+1E45>", <<"<U+1E44>">>>>, <<"<U+1E47>", <<"<U+1E46>">>>>,
     <<"<U+1E49>", <<"<U+1E48>">>>>, <<"<U+1E4B>", <<"<U+1E4A>">>>>,
     <<"<U+1E4D>", <<"<U+1E4C>">>>>, <<"<U+1E4F>", <<"<U+1E4E>">>>>,
     <<"<U+1E51>", <<"<U+1E50>">>>>, <<"<U+1E53>", <<"<U+1E52>">>>>,
     <<"<U+1E55>", <<"<U+1E54>">>>>, <<"<U+1E57>", <<"<U+1E56>">>>>,
     <<"<U+1E59>", <<"<U+1E58>">>>>, <<"<U+1E5B>", <<"<U+1E5A>">>>>,
     <<"<U+1E5D>", <<"<U+1E5C>">>>>, <<"<U+1E5F>", <<"<U+1E5E>">>>>,
     <<"<U+1E61>", <<"<U+1E60>">>>>, <<"<U+1E63>", <<"<U+1E62>">>>>,
     <<"<U+1E65>", <<"<U+1E64>">>>>, <<"<U+1E67>", <<"<U+1E66>">>>>,
     <<"<U+1E69>", <<"<U+1E68>">>>>, <<"<U+1E6B>", <<"<U+1E6A>">>>>,
     <<"<U+1E6D>", <<"<U+1E6C>">>>>, <<"<U+1E6F>", <<"<U+1E6E>">>>>,
     <<"<U+1E71>", <<"<U+1E70>">>>>, <<"<U+1E73>", <<"<U+1E72>">>>>,
     <<"<U+1E75>", <<"<U+1E74>">>>>, <<"<U+1E77>", <<"<U+1E76>">>>>,
     <<"<U+1E79>", <<"<U+1E78>">>>>, <<"<U+1E7B>", <<"<U+1E7A>">>>>,
     <<"<U+1E7D>", <<"<U+1E7C>">>>>, <<"<U+1E7F>", <<"<U+1E7E>">>>>,
     <<"<U+1E81>", <<"<U+1E80>">>>>, <<"<U+1E83>", <<"<U+1E82>">>>>,
     <<"<U+1E85>", <<"<U+1E84>">>>>, <<"<U+1E87>", <<"<U+1E86>">>>>,
     <<"<U+1E89>", <<"<U+1E88>">>>>, <<"<U+1E8B>", <<"<U+1E8A>">>>>,
     <<"<U+1E8D>", <<"<U+1E8C>">>>>, <<"<U+1E8F>", <<"<U+1E8E>">>>>,
     <<"<U+1E91>", <<"<U+1E90>">>>>, <<"<U+1E93>", <<"<U+1E92>">>>>,
     <<"<U+1E95>", <<"<U+1E94>">>>>, <<"<U+1E96>", <<"H","<U+0331>">>>>,
     <<"<U+1E97>", <<"T","<U+0308>">>>>, <<"<U+1E98>", <<"W","<U+030A>">>>>,
     <<"<U+1E99>", <<"Y","<U+030A>">>>>, <<"<U+1E9A>", <<"A","<U+02BE>">>>>,
     <<"<U+1E9B>", <<"<U+1E60>">>>>, <<"<U+1EA1>", <<"<U+1EA0>">>>>,
     <<"<U+1EA3>", <<"<U+1EA2>">>>>, <<"<U+1EA5>", <<"<U+1EA4>">>>>,
     <<"<U+1EA7>", <<"<U+1EA6>">>>>, <<"<U+1EA9>", <<"<U+1EA8>">>>>,
     <<"<U+1EAB>", <<"<U+1EAA>">>>>, <<"<U+1EAD>", <<"<U+1EAC>">>>>,
     <<"<U+1EAF>", <<"<U+1EAE>">>>>, <<"<U+1EB1>", <<"<U+1EB0>">>>>,
     <<"<U+1EB3>", <<"<U+1EB2>">>>>, <<"<U+1EB5>", <<"<U+1EB4>">>>>,
     <<"<U+1EB7>", <<"<U+1EB6>">>>>, <<"<U+1EB9>", <<"<U+1EB8>">>>>,
     <<"<U+1EBB>", <<"<U+1EBA>">>>>, <<"<U+1EBD>", <<"<U+1EBC>">>>>,
     <<"<U+1EBF>", <<"<U+1EBE>">>>>, <<"<U+1EC1>", <<"<U+1EC0>">>>>,
     <<"<U+1EC3>", <<"<U+1EC2>">>>>, <<"<U+1EC5>", <<"<U+1EC4>">>>>,
     <<"<U+1EC7>", <<"<U+1EC6>">>>>, <<"<U+1EC9>", <<"<U+1EC8>">>>>,
     <<"<U+1ECB>", <<"<U+1ECA>">>>>, <<"<U+1ECD>", <<"<U+1ECC>">>>>,
     <<"<U+1ECF>", <<"<U+1ECE>">>>>, <<"<U+1ED1>", <<"<U+1ED0>">>>>,
     <<"<U+1ED3>", <<"<U+1ED2>">>>>, <<"<U+1ED5>", <<"<U+1ED4>">>>>,
     <<"<U+1ED7>", <<"<U+1ED6>">>>>, <<"<U+1ED9>", <<"<U+1ED8>">>>>,
     <<"<U+1EDB>", <<"<U+1EDA>">>>>, <<"<U+1EDD>", <<"<U+1EDC>">>>>,
     <<"<U+1EDF>", <<"<U+1EDE>">>>>, <<"<U+1EE1>", <<"<U+1EE0>">>>>,
     <<"<U+1EE3>", <<"<U+1EE2>">>>>, <<"<U+1EE5>", <<"<U+1EE4>">>>>,
     <<"<U+1EE7>", <<"<U+1EE6>">>>>, <<"<U+1EE9>", <<"<U+1EE8>">>>>,
     <<"<U+1EEB>", <<"<U+1EEA>">>>>, <<"<U+1EED>", <<"<U+1EEC>">>>>,
     <<"<U+1EEF>", <<"<U+1EEE>">>>>, <<"<U+1EF1>", <<"<U+1EF0>">>>>,
     <<"<U+1EF3>", <<"<U+1EF2>">>>>, <<"<U+1EF5>", <<"<U+1EF4>">>>>,
     <<"<U+1EF7>", <<"<U+1EF6>">>>>, <<"<U+1EF9>", <<"<U+1EF8>">>>>,
     <<"<U+1EFB>", <<"<U+1EFA>">>>>, <<"<U+1EFD>", <<"<U+1EFC>">>>>,
     <<"<U+1EFF>", <<"<U+1EFE>">>>>, <<"<U+1F00>", <<"<U+1F08>">>>>,
     <<"<U+1F01>", <<"<U+1F09>">>>>, <<"<U+1F02>", <<"<U+1F0A>">>>>,
     <<"<U+1F03>", <<"<U+1F0B>">>>>, <<"<U+1F04>", <<"<U+1F0C>">>>>,
     <<"<U+1F05>", <<"<U+1F0D>">>>>, <<"<U+1F06>", <<"<U+1F0E>">>>>,
     <<"<U+1F07>", <<"<U+1F0F>">>>>, <<"<U+1F10>", <<"<U+1F18>">>>>,
     <<"<U+1F11>", <<"<U+1F19>">>>>, <<"<U+1F12>", <<"<U+1F1A>">>>>,
     <<"<U+1F13>", <<"<U+1F1B>">>>>, <<"<U+1F14>", <<"<U+1F1C>">>>>,
     <<"<U+1F15>", <<"<U+1F1D>">>>>, <<"<U+1F20>", <<"<U+1F28>">>>>,
     <<"<U+1F21>", <<"<U+1F29>">>>>, <<"<U+1F22>", <<"<U+1F2A>">>>>,
     <<"<U+1F23>", <<"<U+1F2B>">>>>, <<"<U+1F24>", <<"<U+1F2C>">>>>,
     <<"<U+1F25>", <<"<U+1F2D>">>>>, <<"<U+1F26>", <<"<U+1F2E>">>>>,
     <<"<U+1F27>", <<"<U+1F2F>">>>>, <<"<U+1F30>", <<"<U+1F38>">>>>,
     <<"<U+1F31>", <<"<U+1F39>">>>>, <<"<U+1F32>", <<"<U+1F3A>">>>>,
     <<"<U+1F33>", <<"<U+1F3B>">>>>, <<"<U+1F34>", <<"<U+1F3C>">>>>,
     <<"<U+1F35>", <<"<U+1F3D>">>>>, <<"<U+1F36>", <<"<U+1F3E>">>>>,
     <<"<U+1F37>", <<"<U+1F3F>">>>>, <<"<U+1F40>", <<"<U+1F48>">>>>,
     <<"<U+1F41>", <<"<U+1F49>">>>>, <<"<U+1F42>", <<"<U+1F4A>">>>>,
     <<"<U+1F43>", <<"<U+1F4B>">>>>, <<"<U+1F44>", <<"<U+1F4C>">>>>,
     <<"<U+1F45>", <<"<U+1F4D>">>>>,
     <<"<U+1F50>", <<"<U+03A5>","<U+0313>">>>>,
     <<"<U+1F51>", <<"<U+1F59>">>>>,
     <<"<U+1F52>", <<"<U+03A5>","<U+0313>","<U+0300>">>>>,
     <<"<U+1F53>", <<"<U+1F5B>">>>>,
     <<"<U+1F54>", <<"<U+03A5>","<U+0313>","<U+0301>">>>>,
     <<"<U+1F55>", <<"<U+1F5D>">>>>,
     <<"<U+1F56>", <<"<U+03A5>","<U+0313>","<U+0342>">>>>,
     <<"<U+1F57>", <<"<U+1F5F>">>>>, <<"<U+1F60>", <<"<U+1F68>">>>>,
     <<"<U+1F61>", <<"<U+1F69>">>>>, <<"<U+1F62>", <<"<U+1F6A>">>>>,
     <<"<U+1F63>", <<"<U+1F6B>">>>>, <<"<U+1F64>", <<"<U+1F6C>">>>>,
     <<"<U+1F65>", <<"<U+1F6D>">>>>, <<"<U+1F66>", <<"<U+1F6E>">>>>,
     <<"<U+1F67>", <<"<U+1F6F>">>>>, <<"<U+1F70>", <<"<U+1FBA>">>>>,
     <<"<U+1F71>", <<"<U+1FBB>">>>>, <<"<U+1F72>", <<"<U+1FC8>">>>>,
     <<"<U+1F73>", <<"<U+1FC9>">>>>, <<"<U+1F74>", <<"<U+1FCA>">>>>,
     <<"<U+1F75>", <<"<U+1FCB>">>>>, <<"<U+1F76>", <<"<U+1FDA>">>>>,
     <<"<U+1F77>", <<"<U+1FDB>">>>>, <<"<U+1F78>", <<"<U+1FF8>">>>>,
     <<"<U+1F79>", <<"<U+1FF9>">>>>, <<"<U+1F7A>", <<"<U+1FEA>">>>>,
     <<"<U+1F7B>", <<"<U+1FEB>">>>>, <<"<U+1F7C>", <<"<U+1FFA>">>>>,
     <<"<U+1F7D>", <<"<U+1FFB>">>>>,
     <<"<U+1F80>", <<"<U+1F08>","<U+0399>">>>>,
     <<"<U+1F81>", <<"<U+1F09>","<U+0399>">>>>,
     <<"<U+1F82>", <<"<U+1F0A>","<U+0399>">>>>,
     <<"<U+1F83>", <<"<U+1F0B>","<U+0399>">>>>,
     <<"<U+1F84>", <<"<U+1F0C>","<U+0399>">>>>,
     <<"<U+1F85>", <<"<U+1F0D>","<U+0399>">>>>,
     <<"<U+1F86>", <<"<U+1F0E>","<U+0399>">>>>,
     <<"<U+1F87>", <<"<U+1F0F>","<U+0399>">>>>,
     <<"<U+1F88>", <<"<U+1F08>","<U+0399>">>>>,
     <<"<U+1F89>", <<"<U+1F09>","<U+0399>">>>>,
     <<"<U+1F8A>", <<"<U+1F0A>","<U+0399>">>>>,
     <<"<U+1F8B>", <<"<U+1F0B>","<U+0399>">>>>,
     <<"<U+1F8C>", <<"<U+1F0C>","<U+0399>">>>>,
     <<"<U+1F8D>", <<"<U+1F0D>","<U+0399>">>>>,
     <<"<U+1F8E>", <<"<U+1F0E>","<U+0399>">>>>,
     <<"<U+1F8F>", <<"<U+1F0F>","<U+0399>">>>>,
     <<"<U+1F90>", <<"<U+1F28>","<U+0399>">>>>,
     <<"<U+1F91>", <<"<U+1F29>","<U+0399>">>>>,
     <<"<U+1F92>", <<"<U+1F2A>","<U+0399>">>>>,
     <<"<U+1F93>", <<"<U+1F2B>","<U+0399>">>>>,
     <<"<U+1F94>", <<"<U+1F2C>","<U+0399>">>>>,
     <<"<U+1F95>", <<"<U+1F2D>","<U+0399>">>>>,
     <<"<U+1F96>", <<"<U+1F2E>","<U+0399>">>>>,
     <<"<U+1F97>", <<"<U+1F2F>","<U+0399>">>>>,
     <<"<U+1F98>", <<"<U+1F28>","<U+0399>">>>>,
     <<"<U+1F99>", <<"<U+1F29>","<U+0399>">>>>,
     <<"<U+1F9A>", <<"<U+1F2A>","<U+0399>">>>>,
     <<"<U+1F9B>", <<"<U+1F2B>","<U+0399>">>>>,
     <<"<U+1F9C>", <<"<U+1F2C>","<U+0399>">>>>,
     <<"<U+1F9D>", <<"<U+1F2D>","<U+0399>">>>>,
     <<"<U+1F9E>", <<"<U+1F2E>","<U+0399>">>>>,
     <<"<U+1F9F>", <<"<U+1F2F>","<U+0399>">>>>,
     <<"<U+1FA0>", <<"<U+1F68>","<U+0399>">>>>,
     <<"<U+1FA1>", <<"<U+1F69>","<U+0399>">>>>,
     <<"<U+1FA2>", <<"<U+1F6A>","<U+0399>">>>>,
     <<"<U+1FA3>", <<"<U+1F6B>","<U+0399>">>>>,
     <<"<U+1FA4>", <<"<U+1F6C>","<U+0399>">>>>,
     <<"<U+1FA5>", <<"<U+1F6D>","<U+0399>">>>>,
     <<"<U+1FA6>", <<"<U+1F6E>","<U+0399>">>>>,
     <<"<U+1FA7>", <<"<U+1F6F>","<U+0399>">>>>,
     <<"<U+1FA8>", <<"<U+1F68>","<U+0399>">>>>,
     <<"<U+1FA9>", <<"<U+1F69>","<U+0399>">>>>,
     <<"<U+1FAA>", <<"<U+1F6A>","<U+0399>">>>>,
     <<"<U+1FAB>", <<"<U+1F6B>","<U+0399>">>>>,
     <<"<U+1FAC>", <<"<U+1F6C>","<U+0399>">>>>,
     <<"<U+1FAD>", <<"<U+1F6D>","<U+0399>">>>>,
     <<"<U+1FAE>", <<"<U+1F6E>","<U+0399>">>>>,
     <<"<U+1FAF>", <<"<U+1F6F>","<U+0399>">>>>,
     <<"<U+1FB0>", <<"<U+1FB8>">>>>, <<"<U+1FB1>", <<"<U+1FB9>">>>>,
     <<"<U+1FB2>", <<"<U+1FBA>","<U+0399>">>>>,
     <<"<U+1FB3>", <<"<U+0391>","<U+0399>">>>>,
     <<"<U+1FB4>", <<"<U+0386>","<U+0399>">>>>,
     <<"<U+1FB6>", <<"<U+0391>","<U+0342>">>>>,
     <<"<U+1FB7>", <<"<U+0391>","<U+0342>","<U+0399>">>>>,
     <<"<U+1FBC>", <<"<U+0391>","<U+0399>">>>>,
     <<"<U+1FBE>", <<"<U+0399>">>>>,
     <<"<U+1FC2>", <<"<U+1FCA>","<U+0399>">>>>,
     <<"<U+1FC3>", <<"<U+0397>","<U+0399>">>>>,
     <<"<U+1FC4>", <<"<U+0389>","<U+0399>">>>>,
     <<"<U+1FC6>", <<"<U+0397>","<U+0342>">>>>,
     <<"<U+1FC7>", <<"<U+0397>","<U+0342>","<U+0399>">>>>,
     <<"<U+1FCC>", <<"<U+0397>","<U+0399>">>>>,
     <<"<U+1FD0>", <<"<U+1FD8>">>>>, <<"<U+1FD1>", <<"<U+1FD9>">>>>,
     <<"<U+1FD2>", <<"<U+0399>","<U+0308>","<U+0300>">>>>,
     <<"<U+1FD3>", <<"<U+0399>","<U+0308>","<U+0301>">>>>,
     <<"<U+1FD6>", <<"<U+0399>","<U+0342>">>>>,
     <<"<U+1FD7>", <<"<U+0399>","<U+0308>","<U+0342>">>>>,
     <<"<U+1FE0>", <<"<U+1FE8>">>>>, <<"<U+1FE1>", <<"<U+1FE9>">>>>,
     <<"<U+1FE2>", <<"<U+03A5>","<U+0308>","<U+0300>">>>>,
     <<"<U+1FE3>", <<"<U+03A5>","<U+0308>","<U+0301>">>>>,
     <<"<U+1FE4>", <<"<U+03A1>","<U+0313>">>>>,
     <<"<U+1FE5>", <<"<U+1FEC>">>>>,
     <<"<U+1FE6>", <<"<U+03A5>","<U+0342>">>>>,
     <<"<U+1FE7>", <<"<U+03A5>","<U+0308>","<U+0342>">>>>,
     <<"<U+1FF2>", <<"<U+1FFA>","<U+0399>">>>>,
     <<"<U+1FF3>", <<"<U+03A9>","<U+0399>">>>>,
     <<"<U+1FF4>", <<"<U+038F>","<U+0399>">>>>,
     <<"<U+1FF6>", <<"<U+03A9>","<U+0342>">>>>,
     <<"<U+1FF7>", <<"<U+03A9>","<U+0342>","<U+0399>">>>>,
     <<"<U+1FFC>", <<"<U+03A9>","<U+0399>">>>>,
     <<"<U+214E>", <<"<U+2132>">>>>, <<"<U+2170>", <<"<U+2160>">>>>,
     <<"<U+2171>", <<"<U+2161>">>>>, <<"<U+2172>", <<"<U+2162>">>>>,
     <<"<U+2173>", <<"<U+2163>">>>>, <<"<U+2174>", <<"<U+2164>">>>>,
     <<"<U+2175>", <<"<U+2165>">>>>, <<"<U+2176>", <<"<U+2166>">>>>,
     <<"<U+2177>", <<"<U+2167>">>>>, <<"<U+2178>", <<"<U+2168>">>>>,
     <<"<U+2179>", <<"<U+2169>">>>>, <<"<U+217A>", <<"<U+216A>">>>>,
     <<"<U+217B>", <<"<U+216B>">>>>, <<"<U+217C>", <<"<U+216C>">>>>,
     <<"<U+217D>", <<"<U+216D>">>>>, <<"<U+217E>", <<"<U+216E>">>>>,
     <<"<U+217F>", <<"<U+216F>">>>>, <<"<U+2184>", <<"<U+2183>">>>>,
     <<"<U+24D0>", <<"<U+24B6>">>>>, <<"<U+24D1>", <<"<U+24B7>">>>>,
     <<"<U+24D2>", <<"<U+24B8>">>>>, <<"<U+24D3>", <<"<U+24B9>">>>>,
     <<"<U+24D4>", <<"<U+24BA>">>>>, <<"<U+24D5>", <<"<U+24BB>">>>>,
     <<"<U+24D6>", <<"<U+24BC>">>>>, <<"<U+24D7>", <<"<U+24BD>">>>>,
     <<"<U+24D8>", <<"<U+24BE>">>>>, <<"<U+24D9>", <<"<U+24BF>">>>>,
     <<"<U+24DA>", <<"<U+24C0>">>>>, <<"<U+24DB>", <<"<U+24C1>">>>>,
     <<"<U+24DC>", <<"<U+24C2>">>>>, <<"<U+24DD>", <<"<U+24C3>">>>>,
     <<"<U+24DE>", <<"<U+24C4>">>>>, <<"<U+24DF>", <<"<U+24C5>">>>>,
     <<"<U+24E0>", <<"<U+24C6>">>>>, <<"<U+24E1>", <<"<U+24C7>">>>>,
     <<"<U+24E2>", <<"<U+24C8>">>>>, <<"<U+24E3>", <<"<U+24C9>">>>>,
     <<"<U+24E4>", <<"<U+24CA>">>>>, <<"<U+24E5>", <<"<U+24CB>">>>>,
     <<"<U+24E6>", <<"<U+24CC>">>>>, <<"<U+24E7>", <<"<U+24CD>">>>>,
     <<"<U+24E8>", <<"<U+24CE>">>>>, <<"<U+24E9>", <<"<U+24CF>">>>>,
     <<"<U+2C30>", <<"<U+2C00>">>>>, <<"<U+2C31>", <<"<U+2C01>">>>>,
     <<"<U+2C32>", <<"<U+2C02>">>>>, <<"<U+2C33>", <<"<U+2C03>">>>>,
     <<"<U+2C34>", <<"<U+2C04>">>>>, <<"<U+2C35>", <<"<U+2C05>">>>>,
     <<"<U+2C36>", <<"<U+2C06>">>>>, <<"<U+2C37>", <<"<U+2C07>">>>>,
     <<"<U+2C38>", <<"<U+2C08>">>>>, <<"<U+2C39>", <<"<U+2C09>">>>>,
     <<"<U+2C3A>", <<"<U+2C0A>">>>>, <<"<U+2C3B>", <<"<U+2C0B>">>>>,
     <<"<U+2C3C>", <<"<U+2C0C>">>>>, <<"<U+2C3D>", <<"<U+2C0D>">>>>,
     <<"<U+2C3E>", <<"<U+2C0E>">>>>, <<"<U+2C3F>", <<"<U+2C0F>">>>>,
     <<"<U+2C40>", <<"<U+2C10>">>>>, <<"<U+2C41>", <<"<U+2C11>">>>>,
     <<"<U+2C42>", <<"<U+2C12>">>>>, <<"<U+2C43>", <<"<U+2C13>">>>>,
     <<"<U+2C44>", <<"<U+2C14>">>>>, <<"<U+2C45>", <<"<U+2C15>">>>>,
     <<"<U+2C46>", <<"<U+2C16>">>>>, <<"<U+2C47>", <<"<U+2C17>">>>>,
     <<"<U+2C48>", <<"<U+2C18>">>>>, <<"<U+2C49>", <<"<U+2C19>">>>>,
     <<"<U+2C4A>", <<"<U+2C1A>">>>>, <<"<U+2C4B>", <<"<U+2C1B>">>>>,
     <<"<U+2C4C>", <<"<U+2C1C>">>>>, <<"<U+2C4D>", <<"<U+2C1D>">>>>,
     <<"<U+2C4E>", <<"<U+2C1E>">>>>, <<"<U+2C4F>", <<"<U+2C1F>">>>>,
     <<"<U+2C50>", <<"<U+2C20>">>>>, <<"<U+2C51>", <<"<U+2C21>">>>>,
     <<"<U+2C52>", <<"<U+2C22>">>>>, <<"<U+2C53>", <<"<U+2C23>">>>>,
     <<"<U+2C54>", <<"<U+2C24>">>>>, <<"<U+2C55>", <<"<U+2C25>">>>>,
     <<"<U+2C56>", <<"<U+2C26>">>>>, <<"<U+2C57>", <<"<U+2C27>">>>>,
     <<"<U+2C58>", <<"<U+2C28>">>>>, <<"<U+2C59>", <<"<U+2C29>">>>>,
     <<"<U+2C5A>", <<"<U+2C2A>">>>>, <<"<U+2C5B>", <<"<U+2C2B>">>>>,
     <<"<U+2C5C>", <<"<U+2C2C>">>>>, <<"<U+2C5D>", <<"<U+2C2D>">>>>,
     <<"<U+2C5E>", <<"<U+2C2E>">>>>, <<"<U+2C5F>", <<"<U+2C2F>">>>>,
     <<"<U+2C61>", <<"<U+2C60>">>>>, <<"<U+2C65>", <<"<U+023A>">>>>,
     <<"<U+2C66>", <<"<U+023E>">>>>, <<"<U+2C68>", <<"<U+2C67>">>>>,
     <<"<U+2C6A>", <<"<U+2C69>">>>>, <<"<U+2C6C>", <<"<U+2C6B>">>>>,
     <<"<U+2C73>", <<"<U+2C72>">>>>, <<"<U+2C76>", <<"<U+2C75>">>>>,
     <<"<U+2C81>", <<"<U+2C80>">>>>, <<"<U+2C83>", <<"<U+2C82>">>>>,
     <<"<U+2C85>", <<"<U+2C84>">>>>, <<"<U+2C87>", <<"<U+2C86>">>>>,
     <<"<U+2C89>", <<"<U+2C88>">>>>, <<"<U+2C8B>", <<"<U+2C8A>">>>>,
     <<"<U+2C8D>", <<"<U+2C8C>">>>>, <<"<U+2C8F>", <<"<U+2C8E>">>>>,
     <<"<U+2C91>", <<"<U+2C90>">>>>, <<"<U+2C93>", <<"<U+2C92>">>>>,
     <<"<U+2C95>", <<"<U+2C94>">>>>, <<"<U+2C97>", <<"<U+2C96>">>>>,
     <<"<U+2C99>", <<"<U+2C98>">>>>, <<"<U+2C9B>", <<"<U+2C9A>">>>>,
     <<"<U+2C9D>", <<"<U+2C9C>">>>>, <<"<U+2C9F>", <<"<U+2C9E>">>>>,
     <<"<U+2CA1>", <<"<U+2CA0>">>>>, <<"<U+2CA3>", <<"<U+2CA2>">>>>,
     <<"<U+2CA5>", <<"<U+2CA4>">>>>, <<"<U+2CA7>", <<"<U+2CA6>">>>>,
     <<"<U+2CA9>", <<"<U+2CA8>">>>>, <<"<U+2CAB>", <<"<U+2CAA>">>>>,
     <<"<U+2CAD>", <<"<U+2CAC>">>>>, <<"<U+2CAF>", <<"<U+2CAE>">>>>,
     <<"<U+2CB1>", <<"<U+2CB0>">>>>, <<"<U+2CB3>", <<"<U+2CB2>">>>>,
     <<"<U+2CB5>", <<"<U+2CB4>">>>>, <<"<U+2CB7>", <<"<U+2CB6>">>>>,
     <<"<U+2CB9>", <<"<U+2CB8>">>>>, <<"<U+2CBB>", <<"<U+2CBA>">>>>,
     <<"<U+2CBD>", <<"<U+2CBC>">>>>, <<"<U+2CBF>", <<"<U+2CBE>">>>>,
     <<"<U+2CC1>", <<"<U+2CC0>">>>>, <<"<U+2CC3>", <<"<U+2CC2>">>>>,
     <<"<U+2CC5>", <<"<U+2CC4>">>>>, <<"<U+2CC7>", <<"<U+2CC6>">>>>,
     <<"<U+2CC9>", <<"<U+2CC8>">>>>, <<"<U+2CCB>", <<"<U+2CCA>">>>>,
     <<"<U+2CCD>", <<"<U+2CCC>">>>>, <<"<U+2CCF>", <<"<U+2CCE>">>>>,
     <<"<U+2CD1>", <<"<U+2CD0>">>>>, <<"<U+2CD3>", <<"<U+2CD2>">>>>,
     <<"<U+2CD5>", <<"<U+2CD4>">>>>, <<"<U+2CD7>", <<"<U+2CD6>">>>>,
     <<"<U+2CD9>", <<"<U+2CD8>">>>>, <<"<U+2CDB>", <<"<U+2CDA>">>>>,
     <<"<U+2CDD>", <<"<U+2CDC>">>>>, <<"<U+2CDF>", <<"<U+2CDE>">>>>,
     <<"<U+2CE1>", <<"<U+2CE0>">>>>, <<"<U+2CE3>", <<"<U+2CE2>">>>>,
     <<"<U+2CEC>", <<"<U+2CEB>">>>>, <<"<U+2CEE>", <<"<U+2CED>">>>>,
     <<"<U+2CF3>", <<"<U+2CF2>">>>>, <<"<U+2D00>", <<"<U+10A0>">>>>,
     <<"<U+2D01>", <<"<U+10A1>">>>>, <<"<U+2D02>", <<"<U+10A2>">>>>,
     <<"<U+2D03>", <<"<U+10A3>">>>>, <<"<U+2D04>", <<"<U+10A4>">>>>,
     <<"<U+2D05>", <<"<U+10A5>">>>>, <<"<U+2D06>", <<"<U+10A6>">>>>,
     <<"<U+2D07>", <<"<U+10A7>">>>>, <<"<U+2D08>", <<"<U+10A8>">>>>,
     <<"<U+2D09>", <<"<U+10A9>">>>>, <<"<U+2D0A>", <<"<U+10AA>">>>>,
     <<"<U+2D0B>", <<"<U+10AB>">>>>, <<"<U+2D0C>", <<"<U+10AC>">>>>,
     <<"<U+2D0D>", <<"<U+10AD>">>>>, <<"<U+2D0E>", <<"<U+10AE>">>>>,
     <<"<U+2D0F>", <<"<U+10AF>">>>>, <<"<U+2D10>", <<"<U+10B0>">>>>,
     <<"<U+2D11>", <<"<U+10B1>">>>>, <<"<U+2D12>", <<"<U+10B2>">>>>,
     <<"<U+2D13>", <<"<U+10B3>">>>>, <<"<U+2D14>", <<"<U+10B4>">>>>,
     <<"<U+2D15>", <<"<U+10B5>">>>>, <<"<U+2D16>", <<"<U+10B6>">>>>,
     <<"<U+2D17>", <<"<U+10B7>">>>>, <<"<U+2D18>", <<"<U+10B8>">>>>,
     <<"<U+2D19>", <<"<U+10B9>">>>>, <<"<U+2D1A>", <<"<U+10BA>">>>>,
     <<"<U+2D1B>", <<"<U+10BB>">>>>, <<"<U+2D1C>", <<"<U+10BC>">>>>,
     <<"<U+2D1D>", <<"<U+10BD>">>>>, <<"<U+2D1E>", <<"<U+10BE>">>>>,
     <<"<U+2D1F>", <<"<U+10BF>">>>>, <<"<U+2D20>", <<"<U+10C0>">>>>,
     <<"<U+2D21>", <<"<U+10C1>">>>>, <<"<U+2D22>", <<"<U+10C2>">>>>,
     <<"<U+2D23>", <<"<U+10C3>">>>>, <<"<U+2D24>", <<"<U+10C4>">>>>,
     <<"<U+2D25>", <<"<U+10C5>">>>>, <<"<U+2D27>", <<"<U+10C7>">>>>,
     <<"<U+2D2D>", <<"<U+10CD>">>>>, <<"<U+A641>", <<"<U+A640>">>>>,
     <<"<U+A643>", <<"<U+A642>">>>>, <<"<U+A645>", <<"<U+A644>">>>>,
     <<"<U+A647>", <<"<U+A646>">>>>, <<"<U+A649>", <<"<U+A648>">>>>,
     <<"<U+A64B>", <<"<U+A64A>">>>>, <<"<U+A64D>", <<"<U+A64C>">>>>,
     <<"<U+A64F>", <<"<U+A64E>">>>>, <<"<U+A651>", <<"<U+A650>">>>>,
     <<"<U+A653>", <<"<U+A652>">>>>, <<"<U+A655>", <<"<U+A654>">>>>,
     <<"<U+A657>", <<"<U+A656>">>>>, <<"<U+A659>", <<"<U+A658>">>>>,
     <<"<U+A65B>", <<"<U+A65A>">>>>, <<"<U+A65D>", <<"<U+A65C>">>>>,
     <<"<U+A65F>", <<"<U+A65E>">>>>, <<"<U+A661>", <<"<U+A660>">>>>,
     <<"<U+A663>", <<"<U+A662>">>>>, <<"<U+A665>", <<"<U+A664>">>>>,
     <<"<U+A667>", <<"<U+A666>">>>>, <<"<U+A669>", <<"<U+A668>">>>>,
     <<"<U+A66B>", <<"<U+A66A>">>>>, <<"<U+A66D>", <<"<U+A66C>">>>>,
     <<"<U+A681>", <<"<U+A680>">>>>, <<"<U+A683>", <<"<U+A682>">>>>,
     <<"<U+A685>", <<"<U+A684>">>>>, <<"<U+A687>", <<"<U+A686>">>>>,
     <<"<U+A689>", <<"<U+A688>">>>>, <<"<U+A68B>", <<"<U+A68A>">>>>,
     <<"<U+A68D>", <<"<U+A68C>">>>>, <<"<U+A68F>", <<"<U+A68E>">>>>,
     <<"<U+A691>", <<"<U+A690>">>>>, <<"<U+A693>", <<"<U+A692>">>>>,
     <<"<U+A695>", <<"<U+A694>">>>>, <<"<U+A697>", <<"<U+A696>">>>>,
     <<"<U+A699>", <<"<U+A698>">>>>, <<"<U+A69B>", <<"<U+A69A>">>>>,
     <<"<U+A723>", <<"<U+A722>">>>>, <<"<U+A725>", <<"<U+A724>">>>>,
     <<"<U+A727>", <<"<U+A726>">>>>, <<"<U+A729>", <<"<U+A728>">>>>,
     <<"<U+A72B>", <<"<U+A72A>">>>>, <<"<U+A72D>", <<"<U+A72C>">>>>,
     <<"<U+A72F>", <<"<U+A72E>">>>>, <<"<U+A733>", <<"<U+A732>">>>>,
     <<"<U+A735>", <<"<U+A734>">>>>, <<"<U+A737>", <<"<U+A736>">>>>,
     <<"<U+A739>", <<"<U+A738>">>>>, <<"<U+A73B>", <<"<U+A73A>">>>>,
     <<"<U+A73D>", <<"<U+A73C>">>>>, <<"<U+A73F>", <<"<U+A73E>">>>>,
     <<"<U+A741>", <<"<U+A740>">>>>, <<"<U+A743>", <<"<U+A742>">>>>,
     <<"<U+A745>", <<"<U+A744>">>>>, <<"<U+A747>", <<"<U+A746>">>>>,
     <<"<U+A749>", <<"<U+A748>">>>>, <<"<U+A74B>", <<"<U+A74A>">>>>,
     <<"<U+A74D>", <<"<U+A74C>">>>>, <<"<U+A74F>", <<"<U+A74E>">>>>,
     <<"<U+A751>", <<"<U+A750>">>>>, <<"<U+A753>", <<"<U+A752>">>>>,
     <<"<U+A755>", <<"<U+A754>">>>>, <<"<U+A757>", <<"<U+A756>">>>>,
     <<"<U+A759>", <<"<U+A758>">>>>, <<"<U+A75B>", <<"<U+A75A>">>>>,
     <<"<U+A75D>", <<"<U+A75C>">>>>, <<"<U+A75F>", <<"<U+A75E>">>>>,
     <<"<U+A761>", <<"<U+A760>">>>>, <<"<U+A763>", <<"<U+A762>">>>>,
     <<"<U+A765>", <<"<U+A764>">>>>, <<"<U+A767>", <<"<U+A766>">>>>,
     <<"<U+A769>", <<"<U+A768>">>>>, <<"<U+A76B>", <<"<U+A76A>">>>>,
     <<"<U+A76D>", <<"<U+A76C>">>>>, <<"<U+A76F>", <<"<U+A76E>">>>>,
     <<"<U+A77A>", <<"<U+A779>">>>>, <<"<U+A77C>", <<"<U+A77B>">>>>,
     <<"<U+A77F>", <<"<U+A77E>">>>>, <<"<U+A781>", <<"<U+A780>">>>>,
     <<"<U+A783>", <<"<U+A782>">>>>, <<"<U+A785>", <<"<U+A784>">>>>,
     <<"<U+A787>", <<"<U+A786>">>>>, <<"<U+A78C>", <<"<U+A78B>">>>>,
     <<"<U+A791>", <<"<U+A790>">>>>, <<"<U+A793>", <<"<U+A792>">>>>,
     <<"<U+A794>", <<"<U+A7C4>">>>>, <<"<U+A797>", <<"<U+A796>">>>>,
     <<"<U+A799>", <<"<U+A798>">>>>, <<"<U+A79B>", <<"<U+A79A>">>>>,
     <<"<U+A79D>", <<"<U+A79C>">>>>, <<"<U+A79F>", <<"<U+A79E>">>>>,
     <<"<U+A7A1>", <<"<U+A7A0>">>>>, <<"<U+A7A3>", <<"<U+A7A2>">>>>,
     <<"<U+A7A5>", <<"<U+A7A4>">>>>, <<"<U+A7A7>", <<"<U+A7A6>">>>>,
     <<"<U+A7A9>", <<"<U+A7A8>">>>>, <<"<U+A7B5>", <<"<U+A7B4>">>>>,
     <<"<U+A7B7>", <<"<U+A7B6>">>>>, <<"<U+A7B9>", <<"<U+A7B8>">>>>,
     <<"<U+A7BB>", <<"<U+A7BA>">>>>, <<"<U+A7BD>", <<"<U+A7BC>">>>>,
     <<"<U+A7BF>", <<"<U+A7BE>">>>>, <<"<U+A7C1>", <<"<U+A7C0>">>>>,
     <<"<U+A7C3>", <<"<U+A7C2>">>>>, <<"<U+A7C8>", <<"<U+A7C7>">>>>,
     <<"<U+A7CA>", <<"<U+A7C9>">>>>, <<"<U+A7D1>", <<"<U+A7D0>">>>>,
     <<"<U+A7D7>", <<"<U+A7D6>">>>>, <<"<U+A7D9>", <<"<U+A7D8>">>>>,
     <<"<U+A7F6>", <<"<U+A7F5>">>>>, <<"<U+AB53>", <<"<U+A7B3>">>>>,
     <<"<U+AB70>", <<"<U+13A0>">>>>, <<"<U+AB71>", <<"<U+13A1>">>>>,
     <<"<U+AB72>", <<"<U+13A2>">>>>, <<"<U+AB73>", <<"<U+13A3>">>>>,
     <<"<U+AB74>", <<"<U+13A4>">>>>, <<"<U+AB75>", <<"<U+13A5>">>>>,
     <<"<U+AB76>", <<"<U+13A6>">>>>, <<"<U+AB77>", <<"<U+13A7>">>>>,
     <<"<U+AB78>", <<"<U+13A8>">>>>, <<"<U+AB79>", <<"<U+13A9>">>>>,
     <<"<U+AB7A>", <<"<U+13AA>">>>>, <<"<U+AB7B>", <<"<U+13AB>">>>>,
     <<"<U+AB7C>", <<"<U+13AC>">>>>, <<"<U+AB7D>", <<"<U+13AD>">>>>,
     <<"<U+AB7E>", <<"<U+13AE>">>>>, <<"<U+AB7F>", <<"<U+13AF>">>>>,
     <<"<U+AB80>", <<"<U+13B0>">>>>, <<"<U+AB81>", <<"<U+13B1>">>>>,
     <<"<U+AB82>", <<"<U+13B2>">>>>, <<"<U+AB83>", <<"<U+13B3>">>>>,
     <<"<U+AB84>", <<"<U+13B4>">>>>, <<"<U+AB85>", <<"<U+13B5>">>>>,
     <<"<U+AB86>", <<"<U+13B6>">>>>, <<"<U+AB87>", <<"<U+13B7>">>>>,
     <<"<U+AB88>", <<"<U+13B8>">>>>, <<"<U+AB89>", <<"<U+13B9>">>>>,
     <<"<U+AB8A>", <<"<U+13BA>">>>>, <<"<U+AB8B>", <<"<U+13BB>">>>>,
     <<"<U+AB8C>", <<"<U+13BC>">>>>, <<"<U+AB8D>", <<"<U+13BD>">>>>,
     <<"<U+AB8E>", <<"<U+13BE>">>>>, <<"<U+AB8F>", <<"<U+13BF>">>>>,
     <<"<U+AB90>", <<"<U+13C0>">>>>, <<"<U+AB91>", <<"<U+13C1>">>>>,
     <<"<U+AB92>", <<"<U+13C2>">>>>, <<"<U+AB93>", <<"<U+13C3>">>>>,
     <<"<U+AB94>", <<"<U+13C4>">>>>, <<"<U+AB95>", <<"<U+13C5>">>>>,
     <<"<U+AB96>", <<"<U+13C6>">>>>, <<"<U+AB97>", <<"<U+13C7>">>>>,
     <<"<U+AB98>", <<"<U+13C8>">>>>, <<"<U+AB99>", <<"<U+13C9>">>>>,
     <<"<U+AB9A>", <<"<U+13CA>">>>>, <<"<U+AB9B>", <<"<U+13CB>">>>>,
     <<"<U+AB9C>", <<"<U+13CC>">>>>, <<"<U+AB9D>", <<"<U+13CD>">>>>,
     <<"<U+AB9E>", <<"<U+13CE>">>>>, <<"<U+AB9F>", <<"<U+13CF>">>>>,
     <<"<U+ABA0>", <<"<U+13D0>">>>>, <<"<U+ABA1>", <<"<U+13D1>">>>>,
     <<"<U+ABA2>", <<"<U+13D2>">>>>, <<"<U+ABA3>", <<"<U+13D3>">>>>,
     <<"<U+ABA4>", <<"<U+13D4>">>>>, <<"<U+ABA5>", <<"<U+13D5>">>>>,
     <<"<U+ABA6>", <<"<U+13D6>">>>>, <<"<U+ABA7>", <<"<U+13D7>">>>>,
     <<"<U+ABA8>", <<"<U+13D8>">>>>, <<"<U+ABA9>", <<"<U+13D9>">>>>,
     <<"<U+ABAA>", <<"<U+13DA>">>>>, <<"<U+ABAB>", <<"<U+13DB>">>>>,
     <<"<U+ABAC>", <<"<U+13DC>">>>>, <<"<U+ABAD>", <<"<U+13DD>">>>>,
     <<"<U+ABAE>", <<"<U+13DE>">>>>, <<"<U+ABAF>", <<"<U+13DF>">>>>,
     <<"<U+ABB0>", <<"<U+13E0>">>>>, <<"<U+ABB1>", <<"<U+13E1>">>>>,
     <<"<U+ABB2>", <<"<U+13E2>">>>>, <<"<U+ABB3>", <<"<U+13E3>">>>>,
     <<"<U+ABB4>", <<"<U+13E4>">>>>, <<"<U+ABB5>", <<"<U+13E5>">>>>,
     <<"<U+ABB6>", <<"<U+13E6>">>>>, <<"<U+ABB7>", <<"<U+13E7>">>>>,
     <<"<U+ABB8>", <<"<U+13E8>">>>>, <<"<U+ABB9>", <<"<U+13E9>">>>>,
     <<"<U+ABBA>", <<"<U+13EA>">>>>, <<"<U+ABBB>", <<"<U+13EB>">>>>,
     <<"<U+ABBC>", <<"<U+13EC>">>>>, <<"<U+ABBD>", <<"<U+13ED>">>>>,
     <<"<U+ABBE>", <<"<U+13EE>">>>>, <<"<U+ABBF>", <<"<U+13EF>">>>>,
     <<"<U+FB00>", <<"F","F">>>>, <<"<U+FB01>", <<"F","I">>>>,
     <<"<U+FB02>", <<"F","L">>>>, <<"<U+FB03>", <<"F","F","I">>>>,
     <<"<U+FB04>", <<"F","F","L">>>>, <<"<U+FB05>", <<"S","T">>>>,
     <<"<U+FB06>", <<"S","T">>>>, <<"<U+FB13>", <<"<U+0544>","<U+0546>">>>>,
     <<"<U+FB14>", <<"<U+0544>","<U+0535>">>>>,
     <<"<U+FB15>", <<"<U+0544>","<U+053B>">>>>,
     <<"<U+FB16>", <<"<U+054E>","<U+0546>">>>>,
     <<"<U+FB17>", <<"<U+0544>","<U+053D>">>>>,
     <<"<U+FF41>", <<"<U+FF21>">>>>, <<"<U+FF42>", <<"<U+FF22>">>>>,
     <<"<U+FF43>", <<"<U+FF23>">>>>, <<"<U+FF44>", <<"<U+FF24>">>>>,
     <<"<U+FF45>", <<"<U+FF25>">>>>, <<"<U+FF46>", <<"<U+FF26>">>>>,
     <<"<U+FF47>", <<"<U+FF27>">>>>, <<"<U+FF48>", <<"<U+FF28>">>>>,
     <<"<U+FF49>", <<"<U+FF29>">>>>, <<"<U+FF4A>", <<"<U+FF2A>">>>>,
     <<"<U+FF4B>", <<"<U+FF2B>">>>>, <<"<U+FF4C>", <<"<U+FF2C>">>>>,
     <<"<U+FF4D>", <<"<U+FF2D>">>>>, <<"<U+FF4E>", <<"<U+FF2E>">>>>,
     <<"<U+FF4F>", <<"<U+FF2F>">>>>, <<"<U+FF50>", <<"<U+FF30>">>>>,
     <<"<U+FF51>", <<"<U+FF31>">>>>, <<"<U+FF52>", <<"<U+FF32>">>>>,
     <<"<U+FF53>", <<"<U+FF33>">>>>, <<"<U+FF54>", <<"<U+FF34>">>>>,
     <<"<U+FF55>", <<"<U+FF35>">>>>, <<"<U+FF56>", <<"<U+FF36>">>>>,
     <<"<U+FF57>", <<"<U+FF37>">>>>, <<"<U+FF58>", <<"<U+FF38>">>>>,
     <<"<U+FF59>", <<"<U+FF39>">>>>, <<"<U+FF5A>", <<"<U+FF3A>">>>>,
     <<"<U+10428>", <<"<U+10400>">>>>, <<"<U+10429>", <<"<U+10401>">>>>,
     <<"<U+1042A>", <<"<U+10402>">>>>, <<"<U+1042B>", <<"<U+10403>">>>>,
     <<"<U+1042C>", <<"<U+10404>">>>>, <<"<U+1042D>", <<"<U+10405>">>>>,
     <<"<U+1042E>", <<"<U+10406>">>>>, <<"<U+1042F>", <<"<U+10407>">>>>,
     <<"<U+10430>", <<"<U+10408>">>>>, <<"<U+10431>", <<"<U+10409>">>>>,
     <<"<U+10432>", <<"<U+1040A>">>>>, <<"<U+10433>", <<"<U+1040B>">>>>,
     <<"<U+10434>", <<"<U+1040C>">>>>, <<"<U+10435>", <<"<U+1040D>">>>>,
     <<"<U+10436>", <<"<U+1040E>">>>>, <<"<U+10437>", <<"<U+1040F>">>>>,
     <<"<U+10438>", <<"<U+10410>">>>>, <<"<U+10439>", <<"<U+10411>">>>>,
     <<"<U+1043A>", <<"<U+10412>">>>>, <<"<U+1043B>", <<"<U+10413>">>>>,
     <<"<U+1043C>", <<"<U+10414>">>>>, <<"<U+1043D>", <<"<U+10415>">>>>,
     <<"<U+1043E>", <<"<U+10416>">>>>, <<"<U+1043F>", <<"<U+10417>">>>>,
     <<"<U+10440>", <<"<U+10418>">>>>, <<"<U+10441>", <<"<U+10419>">>>>,
     <<"<U+10442>", <<"<U+1041A>">>>>, <<"<U+10443>", <<"<U+1041B>">>>>,
     <<"<U+10444>", <<"<U+1041C>">>>>, <<"<U+10445>", <<"<U+1041D>">>>>,
     <<"<U+10446>", <<"<U+1041E>">>>>, <<"<U+10447>", <<"<U+1041F>">>>>,
     <<"<U+10448>", <<"<U+10420>">>>>, <<"<U+10449>", <<"<U+10421>">>>>,
     <<"<U+1044A>", <<"<U+10422>">>>>, <<"<U+1044B>", <<"<U+10423>">>>>,
     <<"<U+1044C>", <<"<U+10424>">>>>, <<"<U+1044D>", <<"<U+10425>">>>>,
     <<"<U+1044E>", <<"<U+10426>">>>>, <<"<U+1044F>", <<"<U+10427>">>>>,
     <<"<U+104D8>", <<"<U+104B0>">>>>, <<"<U+104D9>", <<"<U+104B1>">>>>,
     <<"<U+104DA>", <<"<U+104B2>">>>>, <<"<U+104DB>", <<"<U+104B3>">>>>,
     <<"<U+104DC>", <<"<U+104B4>">>>>, <<"<U+104DD>", <<"<U+104B5>">>>>,
     <<"<U+104DE>", <<"<U+104B6>">>>>, <<"<U+104DF>", <<"<U+104B7>">>>>,
     <<"<U+104E0>", <<"<U+104B8>">>>>, <<"<U+104E1>", <<"<U+104B9>">>>>,
     <<"<U+104E2>", <<"<U+104BA>">>>>, <<"<U+104E3>", <<"<U+104BB>">>>>,
     <<"<U+104E4>", <<"<U+104BC>">>>>, <<"<U+104E5>", <<"<U+104BD>">>>>,
     <<"<U+104E6>", <<"<U+104BE>">>>>, <<"<U+104E7>", <<"<U+104BF>">>>>,
     <<"<U+104E8>", <<"<U+104C0>">>>>, <<"<U+104E9>", <<"<U+104C1>">>>>,
     <<"<U+104EA>", <<"<U+104C2>">>>>, <<"<U+104EB>", <<"<U+104C3>">>>>,
     <<"<U+104EC>", <<"<U+104C4>">>>>, <<"<U+104ED>", <<"<U+104C5>">>>>,
     <<"<U+104EE>", <<"<U+104C6>">>>>, <<"<U+104EF>", <<"<U+104C7>">>>>,
     <<"<U+104F0>", <<"<U+104C8>">>>>, <<"<U+104F1>", <<"<U+104C9>">>>>,
     <<"<U+104F2>", <<"<U+104CA>">>>>, <<"<U+104F3>", <<"<U+104CB>">>>>,
     <<"<U+104F4>", <<"<U+104CC>">>>>, <<"<U+104F5>", <<"<U+104CD>">>>>,
     <<"<U+104F6>", <<"<U+104CE>">>>>, <<"<U+104F7>", <<"<U+104CF>">>>>,
     <<"<U+104F8>", <<"<U+104D0>">>>>, <<"<U+104F9>", <<"<U+104D1>">>>>,
     <<"<U+104FA>", <<"<U+104D2>">>>>, <<"<U+104FB>", <<"<U+104D3>">>>>,
     <<"<U+10597>", <<"<U+10570>">>>>, <<"<U+10598>", <<"<U+10571>">>>>,
     <<"<U+10599>", <<"<U+10572>">>>>, <<"<U+1059A>", <<"<U+10573>">>>>,
     <<"<U+1059B>", <<"<U+10574>">>>>, <<"<U+1059C>", <<"<U+10575>">>>>,
     <<"<U+1059D>", <<"<U+10576>">>>>, <<"<U+1059E>", <<"<U+10577>">>>>,
     <<"<U+1059F>", <<"<U+10578>">>>>, <<"<U+105A0>", <<"<U+10579>">>>>,
     <<"<U+105A1>", <<"<U+1057A>">>>>, <<"<U+105A3>", <<"<U+1057C>">>>>,
     <<"<U+105A4>", <<"<U+1057D>">>>>, <<"<U+105A5>", <<"<U+1057E>">>>>,
     <<"<U+105A6>", <<"<U+1057F>">>>>, <<"<U+105A7>", <<"<U+10580>">>>>,
     <<"<U+105A8>", <<"<U+10581>">>>>, <<"<U+105A9>", <<"<U+10582>">>>>,
     <<"<U+105AA>", <<"<U+10583>">>>>, <<"<U+105AB>", <<"<U+10584>">>>>,
     <<"<U+105AC>", <<"<U+10585>">>>>, <<"<U+105AD>", <<"<U+10586>">>>>,
     <<"<U+105AE>", <<"<U+10587>">>>>, <<"<U+105AF>", <<"<U+10588>">>>>,
     <<"<U+105B0>", <<"<U+10589>">>>>, <<"<U+105B1>", <<"<U+1058A>">>>>,
     <<"<U+105B3>", <<"<U+1058C>">>>>, <<"<U+105B4>", <<"<U+1058D>">>>>,
     <<"<U+105B5>", <<"<U+1058E>">>>>, <<"<U+105B6>", <<"<U+1058F>">>>>,
     <<"<U+105B7>", <<"<U+10590>">>>>, <<"<U+105B8>", <<"<U+10591>">>>>,
     <<"<U+105B9>", <<"<U+10592>">>>>, <<"<U+105BB>", <<"<U+10594>">>>>,
     <<"<U+105BC>", <<"<U+10595>">>>>, <<"<U+10CC0>", <<"<U+10C80>">>>>,
     <<"<U+10CC1>", <<"<U+10C81>">>>>, <<"<U+10CC2>", <<"<U+10C82>">>>>,
     <<"<U+10CC3>", <<"<U+10C83>">>>>, <<"<U+10CC4>", <<"<U+10C84>">>>>,
     <<"<U+10CC5>", <<"<U+10C85>">>>>, <<"<U+10CC6>", <<"<U+10C86>">>>>,
     <<"<U+10CC7>", <<"<U+10C87>">>>>, <<"<U+10CC8>", <<"<U+10C88>">>>>,
     <<"<U+10CC9>", <<"<U+10C89>">>>>, <<"<U+10CCA>", <<"<U+10C8A>">>>>,
     <<"<U+10CCB>", <<"<U+10C8B>">>>>, <<"<U+10CCC>", <<"<U+10C8C>">>>>,
     <<"<U+10CCD>", <<"<U+10C8D>">>>>, <<"<U+10CCE>", <<"<U+10C8E>">>>>,
     <<"<U+10CCF>", <<"<U+10C8F>">>>>, <<"<U+10CD0>", <<"<U+10C90>">>>>,
     <<"<U+10CD1>", <<"<U+10C91>">>>>, <<"<U+10CD2>", <<"<U+10C92>">>>>,
     <<"<U+10CD3>", <<"<U+10C93>">>>>, <<"<U+10CD4>", <<"<U+10C94>">>>>,
     <<"<U+10CD5>", <<"<U+10C95>">>>>, <<"<U+10CD6>", <<"<U+10C96>">>>>,
     <<"<U+10CD7>", <<"<U+10C97>">>>>, <<"<U+10CD8>", <<"<U+10C98>">>>>,
     <<"<U+10CD9>", <<"<U+10C99>">>>>, <<"<U+10CDA>", <<"<U+10C9A>">>>>,
     <<"<U+10CDB>", <<"<U+10C9B>">>>>, <<"<U+10CDC>", <<"<U+10C9C>">>>>,
     <<"<U+10CDD>", <<"<U+10C9D>">>>>, <<"<U+10CDE>", <<"<U+10C9E>">>>>,
     <<"<U+10CDF>", <<"<U+10C9F>">>>>, <<"<U+10CE0>", <<"<U+10CA0>">>>>,
     <<"<U+10CE1>", <<"<U+10CA1>">>>>, <<"<U+10CE2>", <<"<U+10CA2>">>>>,
     <<"<U+10CE3>", <<"<U+10CA3>">>>>, <<"<U+10CE4>", <<"<U+10CA4>">>>>,
     <<"<U+10CE5>", <<"<U+10CA5>">>>>, <<"<U+10CE6>", <<"<U+10CA6>">>>>,
     <<"<U+10CE7>", <<"<U+10CA7>">>>>, <<"<U+10CE8>", <<"<U+10CA8>">>>>,
     <<"<U+10CE9>", <<"<U+10CA9>">>>>, <<"<U+10CEA>", <<"<U+10CAA>">>>>,
     <<"<U+10CEB>", <<"<U+10CAB>">>>>, <<"<U+10CEC>", <<"<U+10CAC>">>>>,
     <<"<U+10CED>", <<"<U+10CAD>">>>>, <<"<U+10CEE>", <<"<U+10CAE>">>>>,
     <<"<U+10CEF>", <<"<U+10CAF>">>>>, <<"<U+10CF0>", <<"<U+10CB0>">>>>,
     <<"<U+10CF1>", <<"<U+10CB1>">>>>, <<"<U+10CF2>", <<"<U+10CB2>">>>>,
     <<"<U+118C0>", <<"<U+118A0>">>>>, <<"<U+118C1>", <<"<U+118A1>">>>>,
     <<"<U+118C2>", <<"<U+118A2>">>>>, <<"<U+118C3>", <<"<U+118A3>">>>>,
     <<"<U+118C4>", <<"<U+118A4>">>>>, <<"<U+118C5>", <<"<U+118A5>">>>>,
     <<"<U+118C6>", <<"<U+118A6>">>>>, <<"<U+118C7>", <<"<U+118A7>">>>>,
     <<"<U+118C8>", <<"<U+118A8>">>>>, <<"<U+118C9>", <<"<U+118A9>">>>>,
     <<"<U+118CA>", <<"<U+118AA>">>>>, <<"<U+118CB>", <<"<U+118AB>">>>>,
     <<"<U+118CC>", <<"<U+118AC>">>>>, <<"<U+118CD>", <<"<U+118AD>">>>>,
     <<"<U+118CE>", <<"<U+118AE>">>>>, <<"<U+118CF>", <<"<U+118AF>">>>>,
     <<"<U+118D0>", <<"<U+118B0>">>>>, <<"<U+118D1>", <<"<U+118B1>">>>>,
     <<"<U+118D2>", <<"<U+118B2>">>>>, <<"<U+118D3>", <<"<U+118B3>">>>>,
     <<"<U+118D4>", <<"<U+118B4>">>>>, <<"<U+118D5>", <<"<U+118B5>">>>>,
     <<"<U+118D6>", <<"<U+118B6>">>>>, <<"<U+118D7>", <<"<U+118B7>">>>>,
     <<"<U+118D8>", <<"<U+118B8>">>>>, <<"<U+118D9>", <<"<U+118B9>">>>>,
     <<"<U+118DA>", <<"<U+118BA>">>>>, <<"<U+118DB>", <<"<U+118BB>">>>>,
     <<"<U+118DC>", <<"<U+118BC>">>>>, <<"<U+118DD>", <<"<U+118BD>">>>>,
     <<"<U+118DE>", <<"<U+118BE>">>>>, <<"<U+118DF>", <<"<U+118BF>">>>>,
     <<"<U+16E60>", <<"<U+16E40>">>>>, <<"<U+16E61>", <<"<U+16E41>">>>>,
     <<"<U+16E62>", <<"<U+16E42>">>>>, <<"<U+16E63>", <<"<U+16E43>">>>>,
     <<"<U+16E64>", <<"<U+16E44>">>>>, <<"<U+16E65>", <<"<U+16E45>">>>>,
     <<"<U+16E66>", <<"<U+16E46>">>>>, <<"<U+16E67>", <<"<U+16E47>">>>>,
     <<"<U+16E68>", <<"<U+16E48>">>>>, <<"<U+16E69>", <<"<U+16E49>">>>>,
     <<"<U+16E6A>", <<"<U+16E4A>">>>>, <<"<U+16E6B>", <<"<U+16E4B>">>>>,
     <<"<U+16E6C>", <<"<U+16E4C>">>>>, <<"<U+16E6D>", <<"<U+16E4D>">>>>,
     <<"<U+16E6E>", <<"<U+16E4E>">>>>, <<"<U+16E6F>", <<"<U+16E4F>">>>>,
     <<"<U+16E70>", <<"<U+16E50>">>>>, <<"<U+16E71>", <<"<U+16E51>">>>>,
     <<"<U+16E72>", <<"<U+16E52>">>>>, <<"<U+16E73>", <<"<U+16E53>">>>>,
     <<"<U+16E74>", <<"<U+16E54>">>>>, <<"<U+16E75>", <<"<U+16E55>">>>>,
     <<"<U+16E76>", <<"<U+16E56>">>>>, <<"<U+16E77>", <<"<U+16E57>">>>>,
     <<"<U+16E78>", <<"<U+16E58>">>>>, <<"<U+16E79>", <<"<U+16E59>">>>>,
     <<"<U+16E7A>", <<"<U+16E5A>">>>>, <<"<U+16E7B>", <<"<U+16E5B>">>>>,
     <<"<U+16E7C>", <<"<U+16E5C>">>>>, <<"<U+16E7D>", <<"<U+16E5D>">>>>,
     <<"<U+16E7E>", <<"<U+16E5E>">>>>, <<"<U+16E7F>", <<"<U+16E5F>">>>>,
     <<"<U+1E922>", <<"<U+1E900>">>>>, <<"<U+1E923>", <<"<U+1E901>">>>>,
     <<"<U+1E924>", <<"<U+1E902>">>>>, <<"<U+1E925>", <<"<U+1E903>">>>>,
     <<"<U+1E926>", <<"<U+1E904>">>>>, <<"<U+1E927>", <<"<U+1E905>">>>>,
     <<"<U+1E928>", <<"<U+1E906>">>>>, <<"<U+1E929>", <<"<U+1E907>">>>>,
     <<"<U+1E92A>", <<"<U+1E908>">>>>, <<"<U+1E92B>", <<"<U+1E909>">>>>,
     <<"<U+1E92C>", <<"<U+1E90A>">>>>, <<"<U+1E92D>", <<"<U+1E90B>">>>>,
     <<"<U+1E92E>", <<"<U+1E90C>">>>>, <<"<U+1E92F>", <<"<U+1E90D>">>>>,
     <<"<U+1E930>", <<"<U+1E90E>">>>>, <<"<U+1E931>", <<"<U+1E90F>">>>>,
     <<"<U+1E932>", <<"<U+1E910>">>>>, <<"<U+1E933>", <<"<U+1E911>">>>>,
     <<"<U+1E934>", <<"<U+1E912>">>>>, <<"<U+1E935>", <<"<U+1E913>">>>>,
     <<"<U+1E936>", <<"<U+1E914>">>>>, <<"<U+1E937>", <<"<U+1E915>">>>>,
     <<"<U+1E938>", <<"<U+1E916>">>>>, <<"<U+1E939>", <<"<U+1E917>">>>>,
     <<"<U+1E93A>", <<"<U+1E918>">>>>, <<"<U+1E93B>", <<"<U+1E919>">>>>,
     <<"<U+1E93C>", <<"<U+1E91A>">>>>, <<"<U+1E93D>", <<"<U+1E91B>">>>>,
     <<"<U+1E93E>", <<"<U+1E91C>">>>>, <<"<U+1E93F>", <<"<U+1E91D>">>>>,
     <<"<U+1E940>", <<"<U+1E91E>">>>>, <<"<U+1E941>", <<"<U+1E91F>">>>>,
     <<"<U+1E942>", <<"<U+1E920>">>>>, <<"<U+1E943>", <<"<U+1E921>">>>>}

\* repr of a str: each assigned character that is not printable
\* (categories Cc, Cf, Zl, Zp, and Zs but for the space), with the escape
\* repr writes for it.
ReprEscapes ==
    {
     <<"<U+0000>", <<"\\","x","0","0">>>>,
     <<"<U+0001>", <<"\\","x","0","1">>>>,
     <<"<U+0002>", <<"\\","x","0","2">>>>,
     <<"<U+0003>", <<"\\","x","0","3">>>>,
     <<"<U+0004>", <<"\\","x","0","4">>>>,
     <<"<U+0005>", <<"\\","x","0","5">>>>,
     <<"<U+0006>", <<"\\","x","0","6">>>>,
     <<"<U+0007>", <<"\\","x","0","7">>>>,
     <<"<U+0008>", <<"\\","x","0","8">>>>, <<"\t", <<"\\","t">>>>,
     <<"\n", <<"\\","n">>>>, <<"<U+000B>", <<"\\","x","0","b">>>>,
     <<"\f", <<"\\","x","0","c">>>>, <<"\r", <<"\\","r">>>>,
     <<"<U+000E>", <<"\\","x","0","e">>>>,
     <<"<U+000F>", <<"\\","x","0","f">>>>,
     <<"<U+0010>", <<"\\","x","1","0">>>>,
     <<"<U+0011>", <<"\\","x","1","1">>>>,
     <<"<U+0012>", <<"\\","x","1","2">>>>,
     <<"<U+0013>", <<"\\","x","1","3">>>>,
     <<"<U+0014>", <<"\\","x","1","4">>>>,
     <<"<U+0015>", <<"\\","x","1","5">>>>,
     <<"<U+0016>", <<"\\","x","1","6">>>>,
     <<"<U+0017>", <<"\\","x","1","7">>>>,
     <<"<U+0018>", <<"\\","x","1","8">>>>,
     <<"<U+0019>", <<"\\","x","1","9">>>>,
     <<"<U+001A>", <<"\\","x","1","a">>>>,
     <<"<U+001B>", <<"\\","x","1","b">>>>,
     <<"<U+001C>", <<"\\","x","1","c">>>>,
     <<"<U+001D>", <<"\\","x","1","d">>>>,
     <<"<U+001E>", <<"\\","x","1","e">>>>,
     <<"<U+001F>", <<"\\","x","1","f">>>>,
     <<"<U+007F>", <<"\\","x","7","f">>>>,
     <<"<U+0080>", <<"\\","x","8","0">>>>,
     <<"<U+0081>", <<"\\","x","8","1">>>>,
     <<"<U+0082>", <<"\\","x","8","2">>>>,
     <<"<U+0083>", <<"\\","x","8","3">>>>,
     <<"<U+0084>", <<"\\","x","8","4">>>>,
     <<"<U+0085>", <<"\\","x","8","5">>>>,
     <<"<U+0086>", <<"\\","x","8","6">>>>,
     <<"<U+0087>", <<"\\","x","8","7">>>>,
     <<"<U+0088>", <<"\\","x","8","8">>>>,
     <<"<U+0089>", <<"\\","x","8","9">>>>,
     <<"<U+008A>", <<"\\","x","8","a">>>>,
     <<"<U+008B>", <<"\\","x","8","b">>>>,
     <<"<U+008C>", <<"\\","x","8","c">>>>,
     <<"<U+008D>", <<"\\","x","8","d">>>>,
     <<"<U+008E>", <<"\\","x","8","e">>>>,
     <<"<U+008F>", <<"\\","x","8","f">>>>,
     <<"<U+0090>", <<"\\","x","9","0">>>>,
     <<"<U+0091>", <<"\\","x","9","1">>>>,
     <<"<U+0092>", <<"\\","x","9","2">>>>,
     <<"<U+0093>", <<"\\","x","9","3">>>>,
     <<"<U+0094>", <<"\\","x","9","4">>>>,
     <<"<U+0095>", <<"\\","x","9","5">>>>,
     <<"<U+0096>", <<"\\","x","9","6">>>>,
     <<"<U+0097>", <<"\\","x","9","7">>>>,
     <<"<U+0098>", <<"\\","x","9","8">>>>,
     <<"<U+0099>", <<"\\","x","9","9">>>>,
     <<"<U+009A>", <<"\\","x","9","a">>>>,
     <<"<U+009B>", <<"\\","x","9","b">>>>,
     <<"<U+009C>", <<"\\","x","9","c">>>>,
     <<"<U+009D>", <<"\\","x","9","d">>>>,
     <<"<U+009E>", <<"\\","x","9","e">>>>,
     <<"<U+009F>", <<"\\","x","9","f">>>>,
     <<"<U+00A0>", <<"\\","x","a","0">>>>,
     <<"<U+00AD>", <<"\\","x","a","d">>>>,
     <<"<U+0600>", <<"\\","u","0","6","0","0">>>>,
     <<"<U+0601>", <<"\\","u","0","6","0","1">>>>,
     <<"<U+0602>", <<"\\","u","0","6","0","2">>>>,
     <<"<U+0603>", <<"\\","u","0","6","0","3">>>>,
     <<"<U+0604>", <<"\\","u","0","6","0","4">>>>,
     <<"<U+0605>", <<"\\","u","0","6","0","5">>>>,
     <<"<U+061C>", <<"\\","u","0","6","1","c">>>>,
     <<"<U+06DD>", <<"\\","u","0","6","d","d">>>>,
     <<"<U+070F>", <<"\\","u","0","7","0","f">>>>,
     <<"<U+0890>", <<"\\","u","0","8","9","0">>>>,
     <<"<U+0891>", <<"\\","u","0","8","9","1">>>>,
     <<"<U+08E2>", <<"\\","u","0","8","e","2">>>>,
     <<"<U+1680>", <<"\\","u","1","6","8","0">>>>,
     <<"<U+180E>", <<"\\","u","1","8","0","e">>>>,
     <<"<U+2000>", <<"\\","u","2","0","0","0">>>>,
     <<"<U+2001>", <<"\\","u","2","0","0","1">>>>,
     <<"<U+2002>", <<"\\","u","2","0","0","2">>>>,
     <<"<U+2003>", <<"\\","u","2","0","0","3">>>>,
     <<"<U+2004>", <<"\\","u","2","0","0","4">>>>,
     <<"<U+2005>", <<"\\","u","2","0","0","5">>>>,
     <<"<U+2006>", <<"\\","u","2","0","0","6">>>>,
     <<"<U+2007>", <<"\\","u","2","0","0","7">>>>,
     <<"<U+2008>", <<"\\","u","2","0","0","8">>>>,
     <<"<U+2009>", <<"\\","u","2","0","0","9">>>>,
     <<"<U+200A>", <<"\\","u","2","0","0","a">>>>,
     <<"<U+200B>", <<"\\","u","2","0","0","b">>>>,
     <<"<U+200C>", <<"\\","u","2","0","0","c">>>>,
     <<"<U+200D>", <<"\\","u","2","0","0","d">>>>,
     <<"<U+200E>", <<"\\","u","2","0","0","e">>>>,
     <<"<U+200F>", <<"\\","u","2","0","0","f">>>>,
     <<"<U+2028>", <<"\\","u","2","0","2","8">>>>,
     <<"<U+2029>", <<"\\","u","2","0","2","9">>>>,
     <<"<U+202A>", <<"\\","u","2","0","2","a">>>>,
     <<"<U+202B>", <<"\\","u","2","0","2","b">>>>,
     <<"<U+202C>", <<"\\","u","2","0","2","c">>>>,
     <<"<U+202D>", <<"\\","u","2","0","2","d">>>>,
     <<"<U+202E>", <<"\\","u","2","0","2","e">>>>,
     <<"<U+202F>", <<"\\","u","2","0","2","f">>>>,
     <<"<U+205F>", <<"\\","u","2","0","5","f">>>>,
     <<"<U+2060>", <<"\\","u","2","0","6","0">>>>,
     <<"<U+2061>", <<"\\","u","2","0","6","1">>>>,
     <<"<U+2062>", <<"\\","u","2","0","6","2">>>>,
     <<"<U+2063>", <<"\\","u","2","0","6","3">>>>,
     <<"<U+2064>", <<"\\","u","2","0","6","4">>>>,
     <<"<U+2066>", <<"\\","u","2","0","6","6">>>>,
     <<"<U+2067>", <<"\\","u","2","0","6","7">>>>,
     <<"<U+2068>", <<"\\","u","2","0","6","8">>>>,
     <<"<U+2069>", <<"\\","u","2","0","6","9">>>>,
     <<"<U+206A>", <<"\\","u","2","0","6","a">>>>,
     <<"<U+206B>", <<"\\","u","2","0","6","b">>>>,
     <<"<U+206C>", <<"\\","u","2","0","6","c">>>>,
     <<"<U+206D>", <<"\\","u","2","0","6","d">>>>,
     <<"<U+206E>", <<"\\","u","2","0","6","e">>>>,
     <<"<U+206F>", <<"\\","u","2","0","6","f">>>>,
     <<"<U+3000>", <<"\\","u","3","0","0","0">>>>,
     <<"<U+FEFF>", <<"\\","u","f","e","f","f">>>>,
     <<"<U+FFF9>", <<"\\","u","f","f","f","9">>>>,
     <<"<U+FFFA>", <<"\\","u","f","f","f","a">>>>,
     <<"<U+FFFB>", <<"\\","u","f","f","f","b">>>>,
     <<"<U+110BD>", <<"\\","U","0","0","0","1","1","0","b","d">>>>,
     <<"<U+110CD>", <<"\\","U","0","0","0","1","1","0","c","d">>>>,
     <<"<U+13430>", <<"\\","U","0","0","0","1","3","4","3","0">>>>,
     <<"<U+13431>", <<"\\","U","0","0","0","1","3","4","3","1">>>>,
     <<"<U+13432>", <<"\\","U","0","0","0","1","3","4","3","2">>>>,
     <<"<U+13433>", <<"\\","U","0","0","0","1","3","4","3","3">>>>,
     <<"<U+13434>", <<"\\","U","0","0","0","1","3","4","3","4">>>>,
     <<"<U+13435>", <<"\\","U","0","0","0","1","3","4","3","5">>>>,
     <<"<U+13436>", <<"\\","U","0","0","0","1","3","4","3","6">>>>,
     <<"<U+13437>", <<"\\","U","0","0","0","1","3","4","3","7">>>>,
     <<"<U+13438>", <<"\\","U","0","0","0","1","3","4","3","8">>>>,
     <<"<U+1BCA0>", <<"\\","U","0","0","0","1","b","c","a","0">>>>,
     <<"<U+1BCA1>", <<"\\","U","0","0","0","1","b","c","a","1">>>>,
     <<"<U+1BCA2>", <<"\\","U","0","0","0","1","b","c","a","2">>>>,
     <<"<U+1BCA3>", <<"\\","U","0","0","0","1","b","c","a","3">>>>,
     <<"<U+1D173>", <<"\\","U","0","0","0","1","d","1","7","3">>>>,
     <<"<U+1D174>", <<"\\","U","0","0","0","1","d","1","7","4">>>>,
     <<"<U+1D175>", <<"\\","U","0","0","0","1","d","1","7","5">>>>,
     <<"<U+1D176>", <<"\\","U","0","0","0","1","d","1","7","6">>>>,
     <<"<U+1D177>", <<"\\","U","0","0","0","1","d","1","7","7">>>>,
     <<"<U+1D178>", <<"\\","U","0","0","0","1","d","1","7","8">>>>,
     <<"<U+1D179>", <<"\\","U","0","0","0","1","d","1","7","9">>>>,
     <<"<U+1D17A>", <<"\\","U","0","0","0","1","d","1","7","a">>>>,
     <<"<U+E0001>", <<"\\","U","0","0","0","e","0","0","0","1">>>>,
     <<"<U+E0020>", <<"\\","U","0","0","0","e","0","0","2","0">>>>,
     <<"<U+E0021>", <<"\\","U","0","0","0","e","0","0","2","1">>>>,
     <<"<U+E0022>", <<"\\","U","0","0","0","e","0","0","2","2">>>>,
     <<"<U+E0023>", <<"\\","U","0","0","0","e","0","0","2","3">>>>,
     <<"<U+E0024>", <<"\\","U","0","0","0","e","0","0","2","4">>>>,
     <<"<U+E0025>", <<"\\","U","0","0","0","e","0","0","2","5">>>>,
     <<"<U+E0026>", <<"\\","U","0","0","0","e","0","0","2","6">>>>,
     <<"<U+E0027>", <<"\\","U","0","0","0","e","0","0","2","7">>>>,
     <<"<U+E0028>", <<"\\","U","0","0","0","e","0","0","2","8">>>>,
     <<"<U+E0029>", <<"\\","U","0","0","0","e","0","0","2","9">>>>,
     <<"<U+E002A>", <<"\\","U","0","0","0","e","0","0","2","a">>>>,
     <<"<U+E002B>", <<"\\","U","0","0","0","e","0","0","2","b">>>>,
     <<"<U+E002C>", <<"\\","U","0","0","0","e","0","0","2","c">>>>,
     <<"<U+E002D>", <<"\\","U","0","0","0","e","0","0","2","d">>>>,
     <<"<U+E002E>", <<"\\","U","0","0","0","e","0","0","2","e">>>>,
     <<"<U+E002F>", <<"\\","U","0","0","0","e","0","0","2","f">>>>,
     <<"<U+E0030>", <<"\\","U","0","0","0","e","0","0","3","0">>>>,
     <<"<U+E0031>", <<"\\","U","0","0","0","e","0","0","3","1">>>>,
     <<"<U+E0032>", <<"\\","U","0","0","0","e","0","0","3","2">>>>,
     <<"<U+E0033>", <<"\\","U","0","0","0","e","0","0","3","3">>>>,
     <<"<U+E0034>", <<"\\","U","0","0","0","e","0","0","3","4">>>>,
     <<"<U+E0035>", <<"\\","U","0","0","0","e","0","0","3","5">>>>,
     <<"<U+E0036>", <<"\\","U","0","0","0","e","0","0","3","6">>>>,
     <<"<U+E0037>", <<"\\","U","0","0","0","e","0","0","3","7">>>>,
     <<"<U+E0038>", <<"\\","U","0","0","0","e","0","0","3","8">>>>,
     <<"<U+E0039>", <<"\\","U","0","0","0","e","0","0","3","9">>>>,
     <<"<U+E003A>", <<"\\","U","0","0","0","e","0","0","3","a">>>>,
     <<"<U+E003B>", <<"\\","U","0","0","0","e","0","0","3","b">>>>,
     <<"<U+E003C>", <<"\\","U","0","0","0","e","0","0","3","c">>>>,
     <<"<U+E003D>", <<"\\","U","0","0","0","e","0","0","3","d">>>>,
     <<"<U+E003E>", <<"\\","U","0","0","0","e","0","0","3","e">>>>,
     <<"<U+E003F>", <<"\\","U","0","0","0","e","0","0","3","f">>>>,
     <<"<U+E0040>", <<"\\","U","0","0","0","e","0","0","4","0">>>>,
     <<"<U+E0041>", <<"\\","U","0","0","0","e","0","0","4","1">>>>,
     <<"<U+E0042>", <<"\\","U","0","0","0","e","0","0","4","2">>>>,
     <<"<U+E0043>", <<"\\","U","0","0","0","e","0","0","4","3">>>>,
     <<"<U+E0044>", <<"\\","U","0","0","0","e","0","0","4","4">>>>,
     <<"<U+E0045>", <<"\\","U","0","0","0","e","0","0","4","5">>>>,
     <<"<U+E0046>", <<"\\","U","0","0","0","e","0","0","4","6">>>>,
     <<"<U+E0047>", <<"\\","U","0","0","0","e","0","0","4","7">>>>,
     <<"<U+E0048>", <<"\\","U","0","0","0","e","0","0","4","8">>>>,
     <<"<U+E0049>", <<"\\","U","0","0","0","e","0","0","4","9">>>>,
     <<"<U+E004A>", <<"\\","U","0","0","0","e","0","0","4","a">>>>,
     <<"<U+E004B>", <<"\\","U","0","0","0","e","0","0","4","b">>>>,
     <<"<U+E004C>", <<"\\","U","0","0","0","e","0","0","4","c">>>>,
     <<"<U+E004D>", <<"\\","U","0","0","0","e","0","0","4","d">>>>,
     <<"<U+E004E>", <<"\\","U","0","0","0","e","0","0","4","e">>>>,
     <<"<U+E004F>", <<"\\","U","0","0","0","e","0","0","4","f">>>>,
     <<"<U+E0050>", <<"\\","U","0","0","0","e","0","0","5","0">>>>,
     <<"<U+E0051>", <<"\\","U","0","0","0","e","0","0","5","1">>>>,
     <<"<U+E0052>", <<"\\","U","0","0","0","e","0","0","5","2">>>>,
     <<"<U+E0053>", <<"\\","U","0","0","0","e","0","0","5","3">>>>,
     <<"<U+E0054>", <<"\\","U","0","0","0","e","0","0","5","4">>>>,
     <<"<U+E0055>", <<"\\","U","0","0","0","e","0","0","5","5">>>>,
     <<"<U+E0056>", <<"\\","U","0","0","0","e","0","0","5","6">>>>,
     <<"<U+E0057>", <<"\\","U","0","0","0","e","0","0","5","7">>>>,
     <<"<U+E0058>", <<"\\","U","0","0","0","e","0","0","5","8">>>>,
     <<"<U+E0059>", <<"\\","U","0","0","0","e","0","0","5","9">>>>,
     <<"<U+E005A>", <<"\\","U","0","0","0","e","0","0","5","a">>>>,
     <<"<U+E005B>", <<"\\","U","0","0","0","e","0","0","5","b">>>>,
     <<"<U+E005C>", <<"\\","U","0","0","0","e","0","0","5","c">>>>,
     <<"<U+E005D>", <<"\\","U","0","0","0","e","0","0","5","d">>>>,
     <<"<U+E005E>", <<"\\","U","0","0","0","e","0","0","5","e">>>>,
     <<"<U+E005F>", <<"\\","U","0","0","0","e","0","0","5","f">>>>,
     <<"<U+E0060>", <<"\\","U","0","0","0","e","0","0","6","0">>>>,
     <<"<U+E0061>", <<"\\","U","0","0","0","e","0","0","6","1">>>>,
     <<"<U+E0062>", <<"\\","U","0","0","0","e","0","0","6","2">>>>,
     <<"<U+E0063>", <<"\\","U","0","0","0","e","0","0","6","3">>>>,
     <<"<U+E0064>", <<"\\","U","0","0","0","e","0","0","6","4">>>>,
     <<"<U+E0065>", <<"\\","U","0","0","0","e","0","0","6","5">>>>,
     <<"<U+E0066>", <<"\\","U","0","0","0","e","0","0","6","6">>>>,
     <<"<U+E0067>", <<"\\","U","0","0","0","e","0","0","6","7">>>>,
     <<"<U+E0068>", <<"\\","U","0","0","0","e","0","0","6","8">>>>,
     <<"<U+E0069>", <<"\\","U","0","0","0","e","0","0","6","9">>>>,
     <<"<U+E006A>", <<"\\","U","0","0","0","e","0","0","6","a">>>>,
     <<"<U+E006B>", <<"\\","U","0","0","0","e","0","0","6","b">>>>,
     <<"<U+E006C>", <<"\\","U","0","0","0","e","0","0","6","c">>>>,
     <<"<U+E006D>", <<"\\","U","0","0","0","e","0","0","6","d">>>>,
     <<"<U+E006E>", <<"\\","U","0","0","0","e","0","0","6","e">>>>,
     <<"<U+E006F>", <<"\\","U","0","0","0","e","0","0","6","f">>>>,
     <<"<U+E0070>", <<"\\","U","0","0","0","e","0","0","7","0">>>>,
     <<"<U+E0071>", <<"\\","U","0","0","0","e","0","0","7","1">>>>,
     <<"<U+E0072>", <<"\\","U","0","0","0","e","0","0","7","2">>>>,
     <<"<U+E0073>", <<"\\","U","0","0","0","e","0","0","7","3">>>>,
     <<"<U+E0074>", <<"\\","U","0","0","0","e","0","0","7","4">>>>,
     <<"<U+E0075>", <<"\\","U","0","0","0","e","0","0","7","5">>>>,
     <<"<U+E0076>", <<"\\","U","0","0","0","e","0","0","7","6">>>>,
     <<"<U+E0077>", <<"\\","U","0","0","0","e","0","0","7","7">>>>,
     <<"<U+E0078>", <<"\\","U","0","0","0","e","0","0","7","8">>>>,
     <<"<U+E0079>", <<"\\","U","0","0","0","e","0","0","7","9">>>>,
     <<"<U+E007A>", <<"\\","U","0","0","0","e","0","0","7","a">>>>,
     <<"<U+E007B>", <<"\\","U","0","0","0","e","0","0","7","b">>>>,
     <<"<U+E007C>", <<"\\","U","0","0","0","e","0","0","7","c">>>>,
     <<"<U+E007D>", <<"\\","U","0","0","0","e","0","0","7","d">>>>,
     <<"<U+E007E>", <<"\\","U","0","0","0","e","0","0","7","e">>>>,
     <<"<U+E007F>", <<"\\","U","0","0","0","e","0","0","7","f">>>>}

\* sep.join(parts)
RECURSIVE join(_, _)
join(sep, parts) ==
    IF parts = <<>> THEN <<>>
    ELSE IF Len(parts) = 1 THEN parts[1]
    ELSE parts[1] \o sep \o join(sep, Tail(parts))

\* The ASCII digits; whether a character is a decimal digit, of any
\* script, and the digit it stands for.
DigitChars == <<"0","1","2","3","4","5","6","7","8","9">>
IsDigit(c) == \E i \in 1..Len(UnicodeDigits) : c \in UnicodeDigits[i]
digit_value(c) ==
    (CHOOSE i \in 1..Len(UnicodeDigits) : c \in UnicodeDigits[i]) - 1

\* The number a string of digits denotes.
RECURSIVE digits_value(_)
digits_value(ds) ==
    IF ds = <<>> THEN 0
    ELSE digits_value(SubSeq(ds, 1, Len(ds) - 1)) * 10
         + digit_value(ds[Len(ds)])

\* str(n) of a natural number, and of an integer.
RECURSIVE nat_str(_)
nat_str(n) ==
    IF n < 10 THEN <<DigitChars[n + 1]>>
    ELSE nat_str(n \div 10) \o <<DigitChars[(n % 10) + 1]>>
int_str(n) == IF n < 0 THEN <<"-">> \o nat_str(-n) ELSE nat_str(n)

\* Floats.  A float is the record of its sign (1 or -1), its class (zero,
\* finite, inf or nan) and, when it is finite, the decimal 0.<digits> *
\* 10^point with digits that neither begin nor end with a zero.  The
\* digits of a float that the program is given (a quantity, a price) are
\* those repr writes, the shortest that round to it: 0.001 is
\* [digits |-> <<"1">>, point |-> -2], 1e16 is [digits |-> <<"1">>,
\* point |-> 17].  A nan has the sign 1.

\* The float of the integer n.
Float(n) ==
    LET text == nat_str(IF n < 0 THEN -n ELSE n)
        nonzero == {i \in 1..Len(text) : text[i] /= "0"}
    IN  IF n = 0
        THEN [sign |-> 1, class |-> "zero", digits |-> <<>>, point |-> 0]
        ELSE [sign |-> IF n < 0 THEN -1 ELSE 1, class |-> "finite",
              digits |-> SubSeq(text, 1, CHOOSE i \in nonzero :
                                             \A j \in nonzero : i >= j),
              point |-> Len(text)]

\* float('nan') and 0.001.
OddFloats ==
    [ NaN |-> [sign |-> 1, class |-> "nan", digits |-> <<>>, point |-> 0],
      Milli |-> [sign |-> 1, class |-> "finite", digits |-> <<"1">>,
                 point |-> -2] ]

\* x <= 0, x > 0 and x != 0 of a float: nan compares false with every
\* number, so it is neither <= 0 nor > 0, and it is != 0.
float_le_zero(x) ==
    x.class = "zero" \/ (x.class \in {"finite", "inf"} /\ x.sign = -1)
float_gt_zero(x) == x.class \in {"finite", "inf"} /\ x.sign = 1
float_ne_zero(x) == x.class /= "zero"

\* str(x) and repr(x) of a float: nan, inf, 0.0; a finite value in
\* positional notation, with at least one digit on each side of the
\* point, when -4 < point <= 16, and otherwise as d.ddde+XX with an
\* exponent of at least two digits.
float_str(x) ==
    LET n == Len(x.digits)
        zeros(k) == [i \in 1..k |-> "0"]
        minus == IF x.sign = -1 THEN <<"-">> ELSE <<>>
        e == x.point - 1
        positional ==
            IF x.point <= 0
            THEN <<"0", ".">> \o zeros(-x.point) \o x.digits
            ELSE IF x.point >= n
            THEN x.digits \o zeros(x.point - n) \o <<".", "0">>
            ELSE SubSeq(x.digits, 1, x.point) \o <<".">>
                 \o SubSeq(x.digits, x.point + 1, n)
        mantissa ==
            IF n = 1 THEN x.digits
            ELSE <<x.digits[1], ".">> \o Tail(x.digits)
        exponent ==
            <<"e", IF e < 0 THEN "-" ELSE "+">>
            \o (IF -10 < e /\ e < 10 THEN <<"0">> ELSE <<>>)
            \o nat_str(IF e < 0 THEN -e ELSE e)
    IN  IF x.class = "nan" THEN <<"n","a","n">>
        ELSE IF x.class = "inf" THEN minus \o <<"i","n","f">>
        ELSE IF x.class = "zero" THEN minus \o <<"0",".","0">>
        ELSE IF x.point <= -4 \/ x.point > 16
        THEN minus \o mantissa \o exponent
        ELSE minus \o positional
\* Texts of Python's and the library's renderings: str() of a
\* BinanceAPIException, the message of float's ValueError, the defaults of
\* dict.get in the reports, and the line end.
Txt ==
    \* "APIError(code="
    [ APIErrorCode |->
          <<"A","P","I","E","r","r","o","r","(","c","o","d","e","=">>,
    \* "): "
      APIErrorSep |->
          <<")",":"," ">>,
    \* "could not convert string to float: "
      FloatError |->
          <<"c","o","u","l","d"," ","n","o","t"," ","c","o","n","v","e","r",
            "t"," ","s","t","r","i","n","g"," ","t","o"," ","f","l","o","a",
            "t",":"," ">>,
    \* "N/A"
      NA |->
          <<"N","/","A">>,
    \* "None"
      NoneStr |->
          <<"N","o","n","e">>,
    \* "\n"
      Newline |->
          <<"\n">> ]

\* str(x) of an optional float: "None" when there is none.
optional_float_str(x) ==
    IF x = None THEN Txt.NoneStr ELSE float_str(x[1])

\* The strings the callers' arguments are drawn from, and their characters.
Words ==
    {"", "BTCUSDT", "btcusdt", "BUY", "buy", "SELL", "sell", "HOLD", "hold",
     "MARKET", "market", "LIMIT", "limit", "STOP", "stop", "<U+00DF>", "SS"}
Spelling(s) ==
    CASE s = "" -> <<>>
      [] s = "BTCUSDT" -> <<"B","T","C","U","S","D","T">>
      [] s = "btcusdt" -> <<"b","t","c","u","s","d","t">>
      [] s = "BUY" -> <<"B","U","Y">>
      [] s = "buy" -> <<"b","u","y">>
      [] s = "SELL" -> <<"S","E","L","L">>
      [] s = "sell" -> <<"s","e","l","l">>
      [] s = "HOLD" -> <<"H","O","L","D">>
      [] s = "hold" -> <<"h","o","l","d">>
      [] s = "MARKET" -> <<"M","A","R","K","E","T">>
      [] s = "market" -> <<"m","a","r","k","e","t">>
      [] s = "LIMIT" -> <<"L","I","M","I","T">>
      [] s = "limit" -> <<"l","i","m","i","t">>
      [] s = "STOP" -> <<"S","T","O","P">>
      [] s = "stop" -> <<"s","t","o","p">>
      [] s = "<U+00DF>" -> <<"<U+00DF>">>
      [] s = "SS" -> <<"S","S">>
\* The string with the given characters.
Word(cs) == CHOOSE s \in Words : Spelling(s) = cs

----------------------------------------------------------------------------
\* Message literals, as character sequences.

\* The reasons of OrderRequest.validate (binance_client.py, lines 76-92), the
\* wrapper's last error (line 60), the missing-environment error (cli.py,
\* line 21; tools/binance_tools.py, line 17), the phrases of the
\* transient-gateway signature (lines 29-32), and the messages of the errors
\* the exchange raises in the scripts: a 503, a 502 page, a refusal for
\* insufficient balance and a timeout.
Msg ==
    \* "Symbol is required"
    [ SymbolRequired |->
          <<"S","y","m","b","o","l"," ","i","s"," ","r","e","q","u","i","r",
            "e","d">>,
    \* "Side must be BUY or SELL"
      SideInvalid |->
          <<"S","i","d","e"," ","m","u","s","t"," ","b","e"," ","B","U","Y",
            " ","o","r"," ","S","E","L","L">>,
    \* "Order type must be MARKET or LIMIT"
      TypeInvalid |->
          <<"O","r","d","e","r"," ","t","y","p","e"," ","m","u","s","t"," ",
            "b","e"," ","M","A","R","K","E","T"," ","o","r"," ","L","I","M",
            "I","T">>,
    \* "Quantity must be greater than 0"
      QuantityInvalid |->
          <<"Q","u","a","n","t","i","t","y"," ","m","u","s","t"," ","b","e",
            " ","g","r","e","a","t","e","r"," ","t","h","a","n"," ","0">>,
    \* "Price is required for LIMIT orders and must be greater than 0"
      PriceInvalid |->
          <<"P","r","i","c","e"," ","i","s"," ","r","e","q","u","i","r","e",
            "d"," ","f","o","r"," ","L","I","M","I","T"," ","o","r","d","e",
            "r","s"," ","a","n","d"," ","m","u","s","t"," ","b","e"," ","g",
            "r","e","a","t","e","r"," ","t","h","a","n"," ","0">>,
    \* "Unknown error occurred"
      UnknownError |->
          <<"U","n","k","n","o","w","n"," ","e","r","r","o","r"," ","o","c",
            "c","u","r","r","e","d">>,
    \* "BINANCE_API_KEY and BINANCE_API_SECRET environment variables are required"
      EnvRequired |->
          <<"B","I","N","A","N","C","E","_","A","P","I","_","K","E","Y"," ",
            "a","n","d"," ","B","I","N","A","N","C","E","_","A","P","I","_",
            "S","E","C","R","E","T"," ","e","n","v","i","r","o","n","m","e",
            "n","t"," ","v","a","r","i","a","b","l","e","s"," ","a","r","e",
            " ","r","e","q","u","i","r","e","d">>,
    \* "502"
      Sub502 |->
          <<"5","0","2">>,
    \* "503"
      Sub503 |->
          <<"5","0","3">>,
    \* "504"
      Sub504 |->
          <<"5","0","4">>,
    \* "Bad Gateway"
      SubBadGateway |->
          <<"B","a","d"," ","G","a","t","e","w","a","y">>,
    \* "503 Service Unavailable"
      ServiceUnavailable |->
          <<"5","0","3"," ","S","e","r","v","i","c","e"," ","U","n","a","v",
            "a","i","l","a","b","l","e">>,
    \* "<h1>Bad Gateway</h1>"
      BadGateway |->
          <<"<","h","1",">","B","a","d"," ","G","a","t","e","w","a","y","<",
            "/","h","1",">">>,
    \* "Insufficient balance"
      Insufficient |->
          <<"I","n","s","u","f","f","i","c","i","e","n","t"," ","b","a","l",
            "a","n","c","e">>,
    \* "Read timed out"
      TimedOut |->
          <<"R","e","a","d"," ","t","i","m","e","d"," ","o","u","t">> ]

\* Python's  sub in s  on strings.
Contains(s, sub) ==
    \E i \in 0..(Len(s) - Len(sub)) :
        \A j \in 1..Len(sub) : s[i + j] = sub[j]

----------------------------------------------------------------------------
\* Inputs.

Symbols == {"", "BTCUSDT"}
Sides == {"BUY", "SELL", "buy"}
OrderTypes == {"MARKET", "LIMIT", "market"}
Quantities == {Float(n) : n \in -1..MaxQty} \cup {OddFloats.NaN}
Prices ==
    {None} \cup {Some(Float(p)) : p \in -1..MaxPrice}
    \cup {Some(OddFloats.NaN)}

\* @dataclass OrderRequest
OrderRequest ==
    [symbol : Symbols, side : Sides, order_type : OrderTypes,
     quantity : Quantities, price : Prices]

\* Exceptions.
BinanceAPIException(code, message) ==
    [type |-> "BinanceAPIException", code |-> code, message |-> message]
ValueError(message) == [type |-> "ValueError", message |-> message]
OtherException(type, message) == [type |-> type, message |-> message]

\* str(e): python-binance renders a BinanceAPIException as
\* "APIError(code=<code>): <message>"; the other exceptions render as
\* their message.
exc_str(e) ==
    IF e.type = "BinanceAPIException" THEN
        Txt.APIErrorCode \o int_str(e.code) \o Txt.APIErrorSep \o e.message
    ELSE e.message

\* Order acknowledgements of the exchange (dicts).
Responses ==
    { [orderId |-> 123456, status |-> "FILLED"],
      [orderId |-> 789012, status |-> "NEW"] }

\* str(v) of the value under a key of the exchange's acknowledgement.
value_str(key, v) ==
    IF key = "orderId" THEN int_str(v)
    ELSE IF v = "FILLED" THEN <<"F","I","L","L","E","D">>
    ELSE IF v = "NEW" THEN <<"N","E","W">>
    ELSE Spelling(v)

\* data.get(key, 'N/A') inside an f-string.
get_or_na(d, key) ==
    IF key \in DOMAIN d THEN value_str(key, d[key]) ELSE Txt.NA

\* response.get(key) inside an f-string: "None" for a missing key.
get_or_none(d, key) ==
    IF key \in DOMAIN d THEN value_str(key, d[key]) ELSE Txt.NoneStr

Returns(v) == [kind |-> "return", value |-> v]
Raises(e) == [kind |-> "raise", exc |-> e]

\* The outcomes of one futures_create_order call.
ExchangeErrors ==
    { BinanceAPIException(0, Msg.ServiceUnavailable),
      BinanceAPIException(0, Msg.BadGateway),
      BinanceAPIException(-2019, Msg.Insufficient),
      OtherException("ConnectionError", Msg.TimedOut) }
ExchangeOutcomes ==
    {Returns(r) : r \in Responses} \cup {Raises(e) : e \in ExchangeErrors}

\* One outcome per call the wrapper could make at most.
Scripts == [1..max_retries -> ExchangeOutcomes]

----------------------------------------------------------------------------
\* validate with the side check placed before the symbol check.
validate_side_first(o) ==
    IF o.side \notin {"BUY", "SELL"} THEN
        [ok |-> FALSE, reason |-> Some(Msg.SideInvalid)]
    ELSE IF o.symbol = "" THEN
        [ok |-> FALSE, reason |-> Some(Msg.SymbolRequired)]
    ELSE IF o.order_type \notin {"MARKET", "LIMIT"} THEN
        [ok |-> FALSE, reason |-> Some(Msg.TypeInvalid)]
    ELSE IF float_le_zero(o.quantity) THEN
        [ok |-> FALSE, reason |-> Some(Msg.QuantityInvalid)]
    ELSE IF o.order_type = "LIMIT" /\ (o.price = None \/ float_le_zero(o.price[1])) THEN
        [ok |-> FALSE, reason |-> Some(Msg.PriceInvalid)]
    ELSE
        [ok |-> TRUE, reason |-> None]

\* validate with the order_type check placed before the side check.
validate_type_first(o) ==
    IF o.symbol = "" THEN
        [ok |-> FALSE, reason |-> Some(Msg.SymbolRequired)]
    ELSE IF o.order_type \notin {"MARKET", "LIMIT"} THEN
        [ok |-> FALSE, reason |-> Some(Msg.TypeInvalid)]
    ELSE IF o.side \notin {"BUY", "SELL"} THEN
        [ok |-> FALSE, reason |-> Some(Msg.SideInvalid)]
    ELSE IF float_le_zero(o.quantity) THEN
        [ok |-> FALSE, reason |-> Some(Msg.QuantityInvalid)]
    ELSE IF o.order_type = "LIMIT" /\ (o.price = None \/ float_le_zero(o.price[1])) THEN
        [ok |-> FALSE, reason |-> Some(Msg.PriceInvalid)]
    ELSE
        [ok |-> TRUE, reason |-> None]

\* validate with  price < 0  in place of  price <= 0.
validate_price_zero_ok(o) ==
    IF o.symbol = "" THEN
        [ok |-> FALSE, reason |-> Some(Msg.SymbolRequired)]
    ELSE IF o.side \notin {"BUY", "SELL"} THEN
        [ok |-> FALSE, reason |-> Some(Msg.SideInvalid)]
    ELSE IF o.order_type \notin {"MARKET", "LIMIT"} THEN
        [ok |-> FALSE, reason |-> Some(Msg.TypeInvalid)]
    ELSE IF float_le_zero(o.quantity) THEN
        [ok |-> FALSE, reason |-> Some(Msg.QuantityInvalid)]
    ELSE IF /\ o.order_type = "LIMIT"
            /\ \/ o.price = None
               \/ float_le_zero(o.price[1]) /\ float_ne_zero(o.price[1])
    THEN
        [ok |-> FALSE, reason |-> Some(Msg.PriceInvalid)]
    ELSE
        [ok |-> TRUE, reason |-> None]

\* OrderRequest.validate
validate(o) ==
    IF o.symbol = "" THEN
        [ok |-> FALSE, reason |-> Some(Msg.SymbolRequired)]
    ELSE IF o.side \notin {"BUY", "SELL"} THEN
        [ok |-> FALSE, reason |-> Some(Msg.SideInvalid)]
    ELSE IF o.order_type \notin {"MARKET", "LIMIT"} THEN
        [ok |-> FALSE, reason |-> Some(Msg.TypeInvalid)]
    ELSE IF float_le_zero(o.quantity) THEN
        [ok |-> FALSE, reason |-> Some(Msg.QuantityInvalid)]
    ELSE IF o.order_type = "LIMIT" /\ (o.price = None \/ float_le_zero(o.price[1])) THEN
        [ok |-> FALSE, reason |-> Some(Msg.PriceInvalid)]
    ELSE
        [ok |-> TRUE, reason |-> None]

\* place_order, lines 123-129: the dict literal.
params_literal(o) ==
    [symbol |-> o.symbol, side |-> o.side, type |-> o.order_type,
     quantity |-> o.quantity,
     timeInForce |-> IF o.order_type = "LIMIT" THEN Some("GTC") ELSE None]

\* dict[key] = value
dict_set(d, key, value) ==
    [k \in DOMAIN d \cup {key} |-> IF k = key THEN value ELSE d[k]]

\* dict.pop(key)
dict_pop(d, key) == [k \in DOMAIN d \ {key} |-> d[k]]

\* The payload with lines 134-135 left out: a None timeInForce is not popped.
build_params_no_pop(o) ==
    LET p1 == params_literal(o)
    IN  IF o.order_type = "LIMIT" THEN dict_set(p1, "price", o.price) ELSE p1

\* A payload that carries the price whenever the request has one.
build_params_price_if_given(o) ==
    LET p1 == params_literal(o)
        p2 == IF o.price /= None THEN dict_set(p1, "price", o.price) ELSE p1
    IN  IF p2["timeInForce"] = None THEN dict_pop(p2, "timeInForce") ELSE p2

\* place_order, lines 123-135: the wire payload.
build_params(o) ==
    LET p1 == params_literal(o)
        p2 == IF o.order_type = "LIMIT" THEN dict_set(p1, "price", o.price)
              ELSE p1
    IN  IF p2["timeInForce"] = None THEN dict_pop(p2, "timeInForce") ELSE p2

\* A success dict that drops the exchange's response.
Success_no_data(response) ==
    [success |-> TRUE, data |-> None, error |-> None]

\* A failure dict that leaves the error out.
Failure_no_error(code, message) ==
    [success |-> FALSE, data |-> None, error |-> None]

\* The result dicts of place_order, lines 144, 148-152 and 155-159.
Success(response) ==
    [success |-> TRUE, data |-> Some(response), error |-> None]
Failure(code, message) ==
    [success |-> FALSE, data |-> None,
     error |-> Some([code |-> code, message |-> message])]

\* The try block without  except BinanceAPIException  (lines 145-152): an
\* exchange error falls into the generic clause.
order_result_no_api_clause(out) ==
    IF out.kind = "return" THEN Returns(Success(out.value))
    ELSE Returns(Failure(-1, out.exc.message))

\* The try block without its except clauses: every exception of the
\* exchange call leaves the body.
order_result_reraises(out) ==
    IF out.kind = "return" THEN Returns(Success(out.value))
    ELSE Raises(out.exc)

\* The try block without  except Exception  (lines 153-159): any other
\* exception leaves the body.
order_result_no_generic_clause(out) ==
    IF out.kind = "return" THEN Returns(Success(out.value))
    ELSE IF out.exc.type = "BinanceAPIException" THEN
        Returns(Failure(out.exc.code, out.exc.message))
    ELSE Raises(out.exc)

\* place_order, lines 139-159: try / except around futures_create_order.
order_result(out) ==
    IF out.kind = "return" THEN Returns(Success(out.value))
    ELSE IF out.exc.type = "BinanceAPIException" THEN
        Returns(Failure(out.exc.code, out.exc.message))
    ELSE Returns(Failure(-1, out.exc.message))

\* The signature without the "Bad Gateway" phrase.
is_gateway_error_codes_only(error_msg) ==
    \/ Contains(error_msg, Msg.Sub502)
    \/ Contains(error_msg, Msg.Sub503)
    \/ Contains(error_msg, Msg.Sub504)

\* wrapper, lines 28-33: the transient-gateway signature.
is_gateway_error(error_msg) ==
    \/ Contains(error_msg, Msg.Sub502)
    \/ Contains(error_msg, Msg.Sub503)
    \/ Contains(error_msg, Msg.Sub504)
    \/ Contains(error_msg, Msg.SubBadGateway)

\* A handler that sleeps and continues after every exception.
should_retry_always(e, n) == TRUE

\* wrapper, lines 25-56: does the handler sleep and continue, or raise?
should_retry(e, n) ==
    IF e.type = "BinanceAPIException"
    THEN is_gateway_error(e.message) /\ n < max_retries - 1
    ELSE n < max_retries - 1

\* wrapper, lines 35 and 49.
wait_time(n) == delay * (n + 1)

----------------------------------------------------------------------------
\* The log.  Every module logs through logger.setup_logger at level INFO:
\* a logger.debug call emits nothing, every other call emits one record,
\* written to the standard output.

\* The literals of the log calls: of binance_client.py (lines 36-58, 104
\* and 114-154), of tools/streamlit_tools.py (lines 32-72, 93-137, 152-179
\* and 195-224) and of cli.py (lines 20-26, 70, 88 and 91).
LogText ==
    \* "Initializing BinanceFuturesClient (network: "
    [ Initializing |->
          <<"I","n","i","t","i","a","l","i","z","i","n","g"," ","B","i","n",
            "a","n","c","e","F","u","t","u","r","e","s","C","l","i","e","n",
            "t"," ","(","n","e","t","w","o","r","k",":"," ">>,
    \* "testnet"
      Testnet |->
          <<"t","e","s","t","n","e","t">>,
    \* "fapi"
      Fapi |->
          <<"f","a","p","i">>,
    \* "Placing order: "
      Placing |->
          <<"P","l","a","c","i","n","g"," ","o","r","d","e","r",":"," ">>,
    \* "Order validation failed: "
      ValidationFailed |->
          <<"O","r","d","e","r"," ","v","a","l","i","d","a","t","i","o","n",
            " ","f","a","i","l","e","d",":"," ">>,
    \* "Order placed successfully. Order ID: "
      Placed |->
          <<"O","r","d","e","r"," ","p","l","a","c","e","d"," ","s","u","c",
            "c","e","s","s","f","u","l","l","y","."," ","O","r","d","e","r",
            " ","I","D",":"," ">>,
    \* "Binance API error: "
      ApiError |->
          <<"B","i","n","a","n","c","e"," ","A","P","I"," ","e","r","r","o",
            "r",":"," ">>,
    \* " (code: "
      Code |->
          <<" ","(","c","o","d","e",":"," ">>,
    \* "Unexpected error placing order: "
      UnexpectedPlacing |->
          <<"U","n","e","x","p","e","c","t","e","d"," ","e","r","r","o","r",
            " ","p","l","a","c","i","n","g"," ","o","r","d","e","r",":"," ">>,
    \* "API error (attempt "
      RetryApi |->
          <<"A","P","I"," ","e","r","r","o","r"," ","(","a","t","t","e","m",
            "p","t"," ">>,
    \* "Unexpected error (attempt "
      RetryUnexpected |->
          <<"U","n","e","x","p","e","c","t","e","d"," ","e","r","r","o","r",
            " ","(","a","t","t","e","m","p","t"," ">>,
    \* "/"
      Of |->
          <<"/">>,
    \* "): "
      Colon |->
          <<")",":"," ">>,
    \* ". Retrying in "
      Retrying |->
          <<"."," ","R","e","t","r","y","i","n","g"," ","i","n"," ">>,
    \* "s..."
      Seconds |->
          <<"s",".",".",".">>,
    \* "API error after "
      ApiErrorAfter |->
          <<"A","P","I"," ","e","r","r","o","r"," ","a","f","t","e","r"," ">>,
    \* " attempts: "
      Attempts |->
          <<" ","a","t","t","e","m","p","t","s",":"," ">>,
    \* "All retry attempts failed"
      AllFailed |->
          <<"A","l","l"," ","r","e","t","r","y"," ","a","t","t","e","m","p",
            "t","s"," ","f","a","i","l","e","d">>,
    \* "Tool invoked: place_market_order("
      InvokedMarket |->
          <<"T","o","o","l"," ","i","n","v","o","k","e","d",":"," ","p","l",
            "a","c","e","_","m","a","r","k","e","t","_","o","r","d","e","r",
            "(">>,
    \* "Tool invoked: place_limit_order("
      InvokedLimit |->
          <<"T","o","o","l"," ","i","n","v","o","k","e","d",":"," ","p","l",
            "a","c","e","_","l","i","m","i","t","_","o","r","d","e","r","(">>,
    \* "Tool invoked: get_account_balance("
      InvokedBalance |->
          <<"T","o","o","l"," ","i","n","v","o","k","e","d",":"," ","g","e",
            "t","_","a","c","c","o","u","n","t","_","b","a","l","a","n","c",
            "e","(">>,
    \* "Tool invoked: get_position_info("
      InvokedPosition |->
          <<"T","o","o","l"," ","i","n","v","o","k","e","d",":"," ","g","e",
            "t","_","p","o","s","i","t","i","o","n","_","i","n","f","o","(">>,
    \* ", "
      Comma |->
          <<","," ">>,
    \* "Market order placed successfully. Order ID: "
      MarketPlaced |->
          <<"M","a","r","k","e","t"," ","o","r","d","e","r"," ","p","l","a",
            "c","e","d"," ","s","u","c","c","e","s","s","f","u","l","l","y",
            "."," ","O","r","d","e","r"," ","I","D",":"," ">>,
    \* "Limit order placed successfully. Order ID: "
      LimitPlaced |->
          <<"L","i","m","i","t"," ","o","r","d","e","r"," ","p","l","a","c",
            "e","d"," ","s","u","c","c","e","s","s","f","u","l","l","y",".",
            " ","O","r","d","e","r"," ","I","D",":"," ">>,
    \* "Market order failed: "
      MarketFailed |->
          <<"M","a","r","k","e","t"," ","o","r","d","e","r"," ","f","a","i",
            "l","e","d",":"," ">>,
    \* "Limit order failed: "
      LimitFailed |->
          <<"L","i","m","i","t"," ","o","r","d","e","r"," ","f","a","i","l",
            "e","d",":"," ">>,
    \* "Error placing market order: "
      ErrorMarket |->
          <<"E","r","r","o","r"," ","p","l","a","c","i","n","g"," ","m","a",
            "r","k","e","t"," ","o","r","d","e","r",":"," ">>,
    \* "Error placing limit order: "
      ErrorLimit |->
          <<"E","r","r","o","r"," ","p","l","a","c","i","n","g"," ","l","i",
            "m","i","t"," ","o","r","d","e","r",":"," ">>,
    \* "Account balance retrieved: "
      BalanceRetrieved |->
          <<"A","c","c","o","u","n","t"," ","b","a","l","a","n","c","e"," ",
            "r","e","t","r","i","e","v","e","d",":"," ">>,
    \* " assets with non-zero balance"
      AssetsNonZero |->
          <<" ","a","s","s","e","t","s"," ","w","i","t","h"," ","n","o","n",
            "-","z","e","r","o"," ","b","a","l","a","n","c","e">>,
    \* "No balance found in account"
      NoBalance |->
          <<"N","o"," ","b","a","l","a","n","c","e"," ","f","o","u","n","d",
            " ","i","n"," ","a","c","c","o","u","n","t">>,
    \* "Error fetching account balance: "
      ErrorBalance |->
          <<"E","r","r","o","r"," ","f","e","t","c","h","i","n","g"," ","a",
            "c","c","o","u","n","t"," ","b","a","l","a","n","c","e",":"," ">>,
    \* "Position found for "
      PositionFound |->
          <<"P","o","s","i","t","i","o","n"," ","f","o","u","n","d"," ","f",
            "o","r"," ">>,
    \* " units"
      Units |->
          <<" ","u","n","i","t","s">>,
    \* "No open position for "
      NoOpenPosition |->
          <<"N","o"," ","o","p","e","n"," ","p","o","s","i","t","i","o","n",
            " ","f","o","r"," ">>,
    \* "No position information found for "
      NoPositionInfo |->
          <<"N","o"," ","p","o","s","i","t","i","o","n"," ","i","n","f","o",
            "r","m","a","t","i","o","n"," ","f","o","u","n","d"," ","f","o",
            "r"," ">>,
    \* "Error fetching position info: "
      ErrorPosition |->
          <<"E","r","r","o","r"," ","f","e","t","c","h","i","n","g"," ","p",
            "o","s","i","t","i","o","n"," ","i","n","f","o",":"," ">>,
    \* "CLI client initialized successfully"
      Initialized |->
          <<"C","L","I"," ","c","l","i","e","n","t"," ","i","n","i","t","i",
            "a","l","i","z","e","d"," ","s","u","c","c","e","s","s","f","u",
            "l","l","y">>,
    \* "Running CLI command: "
      Running |->
          <<"R","u","n","n","i","n","g"," ","C","L","I"," ","c","o","m","m",
            "a","n","d",":"," ">>,
    \* "Validation error: "
      ValidationError |->
          <<"V","a","l","i","d","a","t","i","o","n"," ","e","r","r","o","r",
            ":"," ">>,
    \* "Unexpected error: "
      UnexpectedError |->
          <<"U","n","e","x","p","e","c","t","e","d"," ","e","r","r","o","r",
            ":"," ">> ]

\* One emitted record: its level and its message.
Log(level, message) == [level |-> level, message |-> message]

\* BinanceFuturesClient.__init__, lines 103-105: the network is named, the
\* credentials are not.
init_logs(testnet) ==
    <<Log("INFO", LogText.Initializing
                  \o (IF testnet THEN LogText.Testnet ELSE LogText.Fapi)
                  \o <<")">>)>>

\* place_order, lines 114-121: the request is logged, then the reason when
\* validate() refuses it.
validate_logs(o, v) ==
    <<Log("INFO", LogText.Placing \o Spelling(o.side) \o <<" ">>
                  \o float_str(o.quantity) \o <<" ">> \o Spelling(o.symbol)
                  \o <<" ", "(">> \o Spelling(o.order_type) \o <<")">>)>>
    \o (IF v.ok THEN <<>>
        ELSE <<Log("ERROR", LogText.ValidationFailed \o v.reason[1])>>)

\* place_order, lines 139-154: one record for each way the exchange call
\* ends.
send_logs(out) ==
    IF out.kind = "return" THEN
        <<Log("INFO", LogText.Placed \o get_or_none(out.value, "orderId"))>>
    ELSE IF out.exc.type = "BinanceAPIException" THEN
        <<Log("ERROR", LogText.ApiError \o out.exc.message \o LogText.Code
                       \o int_str(out.exc.code) \o <<")">>)>>
    ELSE <<Log("ERROR", LogText.UnexpectedPlacing \o exc_str(out.exc))>>

\* wrapper, lines 25-56: the records of the two except clauses, for the
\* exception e of attempt n (counted from 0) under max_retries = retries
\* and a wait of wait seconds.
wrapper_logs(retries, wait, e, n) ==
    LET again(prefix, text) ==
            <<Log("WARNING", prefix \o int_str(n + 1) \o LogText.Of
                             \o int_str(retries) \o LogText.Colon \o text
                             \o LogText.Retrying \o int_str(wait)
                             \o LogText.Seconds)>>
    IN  IF e.type = "BinanceAPIException" THEN
            IF ~is_gateway_error(e.message) THEN <<>>
            ELSE IF n < retries - 1 THEN again(LogText.RetryApi, e.message)
            ELSE <<Log("ERROR", LogText.ApiErrorAfter \o int_str(retries)
                                \o LogText.Attempts \o e.message)>>
        ELSE IF n < retries - 1
        THEN again(LogText.RetryUnexpected, exc_str(e))
        ELSE <<>>

\* wrapper, lines 57-59: after the loop.
exhausted_logs(last) ==
    IF last /= None THEN <<Log("ERROR", LogText.AllFailed)>> ELSE <<>>

----------------------------------------------------------------------------
\* No query tool is running.
QueryIdle ==
    /\ qpc = "idle"
    /\ tool = None
    /\ creds = None
    /\ connect = None
    /\ qsymbol = ""
    /\ reply = None
    /\ client = None
    /\ data = None
    /\ qexc = None
    /\ requests = <<>>
    /\ ret = [kind |-> "none"]

\* place_order is decorated with retry_on_error(max_retries=3, delay=2).
PlaceOrderDecorated == deco = [max_retries |-> max_retries, delay |-> delay]

\* Nothing has been printed, no connection has been constructed, the
\* client is the gateway.
CollabIdle == printed = <<>> /\ connections = <<>> /\ stand_in = None

\* No second gateway instance is under observation.
GatewaysIdle == gateways = <<>>

\* A client has been constructed; the caller holds a request, and the
\* exchange behind the client will behave as the script says.
Init ==
    /\ QueryIdle
    /\ PlaceOrderDecorated
    /\ CollabIdle
    /\ GatewaysIdle
    /\ pc = "idle"
    /\ order \in OrderRequest
    /\ script \in Scripts
    /\ attempt = 0
    /\ last_exception = None
    /\ exc = None
    /\ result = [kind |-> "none"]
    /\ validations = 0
    /\ calls = 0
    /\ sent = <<>>
    /\ sleeps = <<>>
    /\ validated = <<>>
    /\ caller = "place_order"
    /\ args = None
    /\ logs = <<>>

\* The caller invokes client.place_order(order): wrapper, lines 20-21.
wrapper_enter ==
    /\ pc = "idle"
    /\ pc' = "for"
    /\ last_exception' = None
    /\ UNCHANGED <<order, script, attempt, exc, result, validations, calls,
                   sent, sleeps, validated, callerVars, queryVars,
                   retryVars, gatewayVars, collabVars, logs>>

\* wrapper, line 22 (loop head) and lines 57-60 (after the loop).
wrapper_for ==
    /\ pc = "for"
    /\ IF attempt < max_retries
       THEN /\ pc' = "body"
            /\ UNCHANGED <<result, logs>>
       ELSE /\ pc' = "done"
            /\ logs' = logs \o exhausted_logs(last_exception)
            /\ result' = IF last_exception /= None
                         THEN Raises(last_exception[1])
                         ELSE Raises(OtherException("Exception",
                                                    Msg.UnknownError))
    /\ UNCHANGED <<order, script, attempt, last_exception, exc, validations,
                   calls, sent, sleeps, validated, callerVars, queryVars,
                   retryVars, gatewayVars, collabVars>>

\* The body with  if not is_valid: raise  (lines 119-121) left out.
place_order_validate_ignored ==
    /\ pc = "body"
    /\ validations' = validations + 1
    /\ validated' = Append(validated, validate(order))
    /\ logs' = logs \o validate_logs(order, [ok |-> TRUE])
    /\ pc' = "send"
    /\ UNCHANGED <<order, script, attempt, last_exception, exc, result, calls,
                   sent, sleeps, callerVars, queryVars,
                   retryVars, gatewayVars, collabVars>>

\* A validation step that also tidies the request: a price given on a
\* MARKET order is cleared in place.
place_order_validate_tidies ==
    /\ pc = "body"
    /\ validations' = validations + 1
    /\ order' = [order EXCEPT !.price = IF order.order_type = "MARKET"
                                        THEN None ELSE @]
    /\ LET v == validate(order)
       IN  /\ validated' = Append(validated, v)
           /\ logs' = logs \o validate_logs(order, v)
           /\ IF v.ok
              THEN /\ pc' = "send"
                   /\ UNCHANGED exc
              ELSE /\ pc' = "except"
                   /\ exc' = Some(ValueError(v.reason[1]))
    /\ UNCHANGED <<script, attempt, last_exception, result, calls, sent,
                   sleeps, callerVars, queryVars, retryVars, gatewayVars, collabVars>>

\* place_order, lines 114-121: validation.
place_order_validate ==
    /\ pc = "body"
    /\ validations' = validations + 1
    /\ LET v == validate(order)
       IN  /\ validated' = Append(validated, v)
           /\ logs' = logs \o validate_logs(order, v)
           /\ IF v.ok
              THEN /\ pc' = "send"
                   /\ UNCHANGED exc
              ELSE /\ pc' = "except"
                   /\ exc' = Some(ValueError(v.reason[1]))
    /\ UNCHANGED <<order, script, attempt, last_exception, result, calls,
                   sent, sleeps, callerVars, queryVars,
                   retryVars, gatewayVars, collabVars>>

\* place_order, lines 123-159, and the wrapper's return at line 24.
place_order_send ==
    /\ pc = "send"
    /\ calls' = calls + 1
    /\ sent' = Append(sent, build_params(order))
    /\ logs' = logs \o send_logs(script[calls + 1])
    /\ LET body == order_result(script[calls + 1])
       IN  IF body.kind = "return"
           THEN /\ pc' = "done"
                /\ result' = body
                /\ UNCHANGED exc
           ELSE /\ pc' = "except"
                /\ exc' = Some(body.exc)
                /\ UNCHANGED result
    /\ UNCHANGED <<order, script, attempt, last_exception, validations,
                   sleeps, validated, callerVars, queryVars,
                   retryVars, gatewayVars, collabVars>>

\* wrapper, lines 25-56: the two except clauses, up to the call of
\* time.sleep.
wrapper_except ==
    /\ pc = "except"
    /\ LET e == exc[1]
       IN  /\ last_exception' = IF e.type = "BinanceAPIException"
                                THEN Some(e) ELSE last_exception
           /\ logs' = logs \o wrapper_logs(max_retries, wait_time(attempt),
                                            e, attempt)
           /\ IF should_retry(e, attempt)
              THEN /\ sleeps' = Append(sleeps, wait_time(attempt))
                   /\ pc' = "sleep"
                   /\ UNCHANGED <<result, exc>>
              ELSE /\ pc' = "done"
                   /\ result' = Raises(e)
                   /\ exc' = None
                   /\ UNCHANGED sleeps
    /\ UNCHANGED <<order, script, attempt, validations, calls, sent,
                   validated, callerVars, queryVars, retryVars, gatewayVars,
                   collabVars>>

\* wrapper, lines 41 and 55, then line 22: time.sleep has returned, the
\* handler ends with continue and the loop takes the next attempt.
wrapper_continue ==
    /\ pc = "sleep"
    /\ attempt' = attempt + 1
    /\ exc' = None
    /\ pc' = "for"
    /\ UNCHANGED <<order, script, last_exception, result, validations,
                   calls, sent, sleeps, validated, callerVars, queryVars,
                   retryVars, gatewayVars, collabVars, logs>>

Next ==
    \/ wrapper_enter
    \/ wrapper_for
    \/ place_order_validate
    \/ place_order_send
    \/ wrapper_except
    \/ wrapper_continue

Spec == Init /\ [][Next]_vars

\* The call runs to its end: the interpreter executes the next statement,
\* and every sleep and every exchange call comes back.
SpecTerminating == Init /\ [][Next]_vars /\ WF_vars(Next)

----------------------------------------------------------------------------
\* The callers of the gateway: CLI.run (src/cli.py) and the order tools
\* (src/tools/binance_tools.py, src/tools/streamlit_tools.py). "OrderRequest"
\* is a caller that constructs the request from its arguments as they are
\* and hands it to place_order.


\* str.upper on one character: the characters it becomes.
upper_char(c) ==
    IF \E p \in UpperCase : p[1] = c
    THEN (CHOOSE p \in UpperCase : p[1] = c)[2]
    ELSE <<c>>

\* A str.upper that leaves the string as it is.
upper_unchanged(s) == s

\* str.upper
upper(s) ==
    LET cs == Spelling(s)
    IN  Word(join(<<>>, [i \in 1..Len(cs) |-> upper_char(cs[i])]))

\* The arguments of the callers.
Args ==
    [ symbol |-> {"", "BTCUSDT", "btcusdt", "<U+00DF>"},
      side |-> {"BUY", "buy", "sell", "hold"},
      order_type |-> {"MARKET", "market", "limit", "stop"},
      price |-> Prices \ {None} ]

CallerArgs(c) ==
    CASE c \in {"OrderRequest", "CLI.run"} ->
             [symbol : Args.symbol, side : Args.side, order_type : Args.order_type,
              quantity : Quantities, price : Prices]
      [] c = "place_market_order" ->
             [symbol : Args.symbol, side : Args.side, quantity : Quantities]
      [] c = "place_limit_order" ->
             [symbol : Args.symbol, side : Args.side, quantity : Quantities,
              price : Args.price]
Callers ==
    {"OrderRequest", "CLI.run", "place_market_order", "place_limit_order"}

\* The request each caller constructs from its arguments:
\* the dataclass constructor itself; CLI.run, cli.py lines 73-79;
\* place_market_order and place_limit_order, binance_tools.py lines 38-43
\* and 86-92, streamlit_tools.py lines 36-41 and 99-105.
caller_request(c, a) ==
    CASE c = "OrderRequest" ->
             [symbol |-> a.symbol, side |-> a.side,
              order_type |-> a.order_type, quantity |-> a.quantity,
              price |-> a.price]
      [] c = "CLI.run" ->
             [symbol |-> upper(a.symbol), side |-> upper(a.side),
              order_type |-> upper(a.order_type), quantity |-> a.quantity,
              price |-> a.price]
      [] c = "place_market_order" ->
             [symbol |-> upper(a.symbol), side |-> upper(a.side),
              order_type |-> "MARKET", quantity |-> a.quantity,
              price |-> None]
      [] c = "place_limit_order" ->
             [symbol |-> upper(a.symbol), side |-> upper(a.side),
              order_type |-> "LIMIT", quantity |-> a.quantity,
              price |-> a.price]

\* The exchange answers every call of one run in the same way.
SteadyScripts == {[i \in 1..max_retries |-> out] : out \in ExchangeOutcomes}

\* A caller has been invoked with its arguments; no request exists yet.
InitCallers ==
    /\ QueryIdle
    /\ PlaceOrderDecorated
    /\ CollabIdle
    /\ GatewaysIdle
    /\ pc = "build"
    /\ caller \in Callers
    /\ args \in CallerArgs(caller)
    /\ order = None
    /\ script \in SteadyScripts
    /\ attempt = 0
    /\ last_exception = None
    /\ exc = None
    /\ result = [kind |-> "none"]
    /\ validations = 0
    /\ calls = 0
    /\ sent = <<>>
    /\ sleeps = <<>>
    /\ validated = <<>>
    /\ logs = <<>>

\* The callers' steps (caller_build_order, collab_report,
\* collab_tool_except) and SpecCallers follow the collaborators' texts
\* below.

----------------------------------------------------------------------------
\* Vocabulary of the properties.

Done == pc = "done"
Valid == validate(order).ok
IsApiError(out) == out.kind = "raise" /\ out.exc.type = "BinanceAPIException"
IsTransient(out) == IsApiError(out) /\ is_gateway_error(out.exc.message)
IsPermanent(out) == IsApiError(out) /\ ~is_gateway_error(out.exc.message)
IsOtherError(out) == out.kind = "raise" /\ out.exc.type /= "BinanceAPIException"

\* C1: a request that fails validation makes place_order raise the
\* validation error with its reason after a single validation, without any
\* backoff sleep and without a second attempt.
C1_ValidationErrorNotRetried ==
    (Done /\ ~Valid) =>
        /\ result = Raises(ValueError(validate(order).reason[1]))
        /\ validations = 1
        /\ sleeps = <<>>
        /\ attempt = 0

\* C2: when the exchange call fails twice with a 503 error and then
\* succeeds, place_order returns Success, the exchange call was attempted
\* exactly 3 times and the sleeps were delay, then 2 * delay.
C2_TwoFailuresThenSuccess ==
    ( /\ Done /\ Valid
      /\ \A i \in {1, 2} : /\ IsApiError(script[i])
                           /\ Contains(script[i].exc.message, Msg.Sub503)
      /\ script[3].kind = "return" ) =>
        /\ result = Returns(Success(script[3].value))
        /\ calls = 3
        /\ sleeps = <<delay, 2 * delay>>

\* C3: when the exchange call fails with a transient signature on every
\* attempt, place_order returns Failure with the last error's code and
\* message after exactly max_retries attempts of the exchange call.
C3_TransientExhausted ==
    (Done /\ Valid /\ \A i \in 1..max_retries : IsTransient(script[i])) =>
        /\ calls = max_retries
        /\ result = Returns(Failure(script[max_retries].exc.code,
                                    script[max_retries].exc.message))

\* C4: when the exchange call fails with a non-transient exchange error,
\* place_order returns Failure with that error after exactly one attempt of
\* the exchange call and without any backoff sleep.
C4_PermanentFailsAtOnce ==
    (Done /\ Valid /\ IsPermanent(script[1])) =>
        /\ result = Returns(Failure(script[1].exc.code,
                                    script[1].exc.message))
        /\ calls = 1
        /\ sleeps = <<>>
        /\ attempt = 0

C4_Witness ==
    /\ Done /\ Valid
    /\ script[1] = Raises(BinanceAPIException(-2019, Msg.Insufficient))
    /\ result = Returns(Failure(-2019, Msg.Insufficient))
    /\ calls = 1

\* C5: a non-exchange exception raised by the exchange call is retried with
\* linear backoff, and is reported as Failure with code -1 only when every
\* one of the max_retries attempts has failed.
C5_OtherExceptionRetried ==
    (Done /\ Valid /\ IsOtherError(script[1])) =>
        /\ calls >= 2
        /\ sleeps /= <<>> /\ sleeps[1] = delay
        /\ (result.kind = "return" /\ ~result.value.success
            /\ result.value.error[1].code = -1) =>
               /\ calls = max_retries
               /\ \A i \in 1..max_retries : script[i].kind = "raise"

\* C6: when the exchange call returns a response on the first attempt,
\* place_order returns Success whose data is that response, after exactly
\* one exchange call, with no sleep and no further attempt.
C6_FirstSuccessReturned ==
    (Done /\ Valid /\ script[1].kind = "return") =>
        /\ result = Returns([success |-> TRUE,
                             data |-> Some(script[1].value),
                             error |-> None])
        /\ calls = 1
        /\ validations = 1
        /\ sleeps = <<>>
        /\ attempt = 0

C6_Witness ==
    /\ Done /\ Valid
    /\ script[1] = Returns([orderId |-> 123456, status |-> "FILLED"])
    /\ result.kind = "return"
    /\ result.value.data = Some([orderId |-> 123456, status |-> "FILLED"])

\* C7: a request that fails validation never reaches the exchange: in every
\* state of the call, whichever execution of the body it is in, no exchange
\* call has been made and no payload sent, and the call ends raising the
\* validation error.
C7_InvalidNeverSent ==
    ~Valid =>
        /\ calls = 0
        /\ sent = <<>>
        /\ pc /= "send"
        /\ Done => /\ result.kind = "raise"
                   /\ result.exc.type = "ValueError"

C7_Witness ==
    /\ Done /\ ~Valid
    /\ validations = max_retries
    /\ result.kind = "raise"
    /\ calls = 0

\* C8: every exception of the exchange call becomes a returned Failure: an
\* exchange error gives its code and message, any other exception gives
\* code -1 and its text; place_order raises only the validation error of an
\* invalid request.
C8_ExchangeErrorsBecomeFailures ==
    /\ (pc = "except") => (~Valid /\ exc[1].type = "ValueError")
    /\ Done =>
        /\ (calls >= 1) => result.kind = "return"
        /\ (calls >= 1 /\ IsApiError(script[calls])) =>
               /\ ~result.value.success
               /\ result.value.error[1] =
                      [code |-> script[calls].exc.code,
                       message |-> script[calls].exc.message]
        /\ (calls >= 1 /\ IsOtherError(script[calls])) =>
               /\ ~result.value.success
               /\ result.value.error[1] =
                      [code |-> -1, message |-> script[calls].exc.message]
        /\ (result.kind = "raise") =>
               /\ ~Valid
               /\ result.exc = ValueError(validate(order).reason[1])

C8_Witness ==
    /\ Done /\ calls = 1
    /\ script[1] = Raises(OtherException("ConnectionError", Msg.TimedOut))
    /\ result.kind = "return"
    /\ result.value.error = Some([code |-> -1, message |-> Msg.TimedOut])

\* C9: a returned Result has the keys success, data and error, and exactly
\* one side populated: success with the exchange response as data and no
\* error, or failure with no data and an error holding a code and a message.
C9_ResultExactlyOneSide ==
    (result.kind = "return") =>
        LET r == result.value
        IN  /\ DOMAIN r = {"success", "data", "error"}
            /\ r.success =>
                   /\ script[calls].kind = "return"
                   /\ r.data = Some(script[calls].value)
                   /\ r.error = None
            /\ ~r.success =>
                   /\ r.data = None
                   /\ r.error /= None
                   /\ DOMAIN r.error[1] = {"code", "message"}

C9_Witness ==
    /\ result.kind = "return"
    /\ ~result.value.success
    /\ result.value.data = None
    /\ result.value.error = Some([code |-> 0, message |-> Msg.BadGateway])

\* C10: no payload sent for a MARKET request has a timeInForce key, and
\* every payload sent for a LIMIT request has a price and a timeInForce
\* equal to GTC.
C10_TimeInForceOnlyForLimit ==
    \A i \in 1..Len(sent) :
        LET p == sent[i]
        IN  /\ p.type = order.order_type
            /\ (p.type = "MARKET") => "timeInForce" \notin DOMAIN p
            /\ (p.type = "LIMIT") =>
                   /\ {"price", "timeInForce"} \subseteq DOMAIN p
                   /\ p.timeInForce = Some("GTC")
                   /\ p.price /= None
                   /\ p.price = order.price

C10_Witness ==
    /\ Len(sent) = 1
    /\ order.order_type = "LIMIT"
    /\ sent[1].timeInForce = Some("GTC")
    /\ sent[1].price = Some(Float(1))

----------------------------------------------------------------------------
\* Validation (spec 4.1, 8).

\* The checks of validate, in the order spec 4.1 lists them, each with
\* the reason reported when it fails.  The quantity check fails for a
\* quantity <= 0 and the price check of a LIMIT request for a price that
\* is None or <= 0; a nan fails neither, being <= nothing.
SymbolMissing(o) == o.symbol = ""
SideBad(o) == o.side /= "BUY" /\ o.side /= "SELL"
TypeBad(o) == o.order_type /= "MARKET" /\ o.order_type /= "LIMIT"
QuantityFails(o) == float_le_zero(o.quantity)
LimitPriceFails(o) ==
    o.order_type = "LIMIT" /\ (o.price = None \/ float_le_zero(o.price[1]))

Broken(o) ==
    <<SymbolMissing(o), SideBad(o), TypeBad(o), QuantityFails(o),
      LimitPriceFails(o)>>

\* The Order Request invariant of spec 3: symbol non-empty, side BUY or
\* SELL, order_type MARKET or LIMIT, quantity > 0, and for LIMIT a price
\* that is present and > 0.
QuantityBad(o) == ~float_gt_zero(o.quantity)
PriceBad(o) == o.price = None \/ ~float_gt_zero(o.price[1])
LimitPriceBad(o) == o.order_type = "LIMIT" /\ PriceBad(o)
InvariantHolds(o) ==
    /\ ~SymbolMissing(o) /\ ~SideBad(o) /\ ~TypeBad(o)
    /\ ~QuantityBad(o) /\ ~LimitPriceBad(o)
Reasons ==
    <<Msg.SymbolRequired, Msg.SideInvalid, Msg.TypeInvalid, Msg.QuantityInvalid,
      Msg.PriceInvalid>>
BrokenRules(o) == {i \in 1..5 : Broken(o)[i]}
FirstBroken(o) ==
    CHOOSE i \in BrokenRules(o) : \A j \in BrokenRules(o) : i <= j

\* The validation error in flight after a failed order.validate().
Rejected == pc = "except" /\ exc /= None /\ exc[1].type = "ValueError"

\* C11: validate() reports only the reason of the first check that fails,
\* in the order symbol, side, order_type, quantity, LIMIT price, also for a
\* request that fails several checks.
C11_FirstFailingReason ==
    (BrokenRules(order) /= {}) =>
        /\ validate(order) =
               [ok |-> FALSE, reason |-> Some(Reasons[FirstBroken(order)])]
        /\ Rejected => exc[1].message = Reasons[FirstBroken(order)]

C11_Witness ==
    /\ Rejected
    /\ Cardinality(BrokenRules(order)) = 4
    /\ exc[1].message = Msg.SymbolRequired

\* C12 as claimed: a request whose side is neither BUY nor SELL is rejected
\* with "Side must be BUY or SELL" whatever its other fields, the symbol
\* included.
C12_SideReasonRegardless ==
    (validations >= 1 /\ SideBad(order)) =>
        /\ validate(order) = [ok |-> FALSE, reason |-> Some(Msg.SideInvalid)]
        /\ Rejected => exc[1].message = Msg.SideInvalid

\* C12 as amended: a request with a non-empty symbol whose side is neither
\* BUY nor SELL is rejected with "Side must be BUY or SELL" whatever its
\* order_type, quantity and price; with an empty symbol the reason is
\* "Symbol is required".
C12_SideReasonGivenSymbol ==
    /\ (~SymbolMissing(order) /\ SideBad(order)) =>
          /\ validate(order) =
                 [ok |-> FALSE, reason |-> Some(Msg.SideInvalid)]
          /\ Rejected => exc[1].message = Msg.SideInvalid
    /\ (SymbolMissing(order) /\ SideBad(order)) =>
          /\ validate(order) =
                 [ok |-> FALSE, reason |-> Some(Msg.SymbolRequired)]
          /\ Rejected => exc[1].message = Msg.SymbolRequired

C12_Witness ==
    /\ Rejected
    /\ ~SymbolMissing(order) /\ SideBad(order) /\ TypeBad(order)
    /\ QuantityBad(order)
    /\ exc[1].message = Msg.SideInvalid

\* C13 as claimed: every LIMIT request whose price is None or <= 0 is
\* rejected with the reason "Price is required for LIMIT orders and must be
\* greater than 0".
C13_LimitPriceReason ==
    (validations >= 1 /\ LimitPriceFails(order)) =>
        /\ validate(order) = [ok |-> FALSE, reason |-> Some(Msg.PriceInvalid)]
        /\ Rejected => exc[1].message = Msg.PriceInvalid

\* C13 as amended: every LIMIT request whose price is None or <= 0 is
\* rejected, and the reason is "Price is required for LIMIT orders and must
\* be greater than 0" when its symbol is non-empty, its side is BUY or SELL
\* and its quantity is not <= 0 (a quantity > 0, or a nan, which the
\* quantity check lets pass), and otherwise the reason of the first of
\* those checks that fails.
C13_LimitPriceReasonWhenRestValid ==
    LimitPriceFails(order) =>
        /\ ~validate(order).ok
        /\ pc /= "send"
        /\ ( /\ ~SymbolMissing(order) /\ ~SideBad(order)
             /\ ~QuantityFails(order) ) =>
               /\ validate(order) =
                      [ok |-> FALSE, reason |-> Some(Msg.PriceInvalid)]
               /\ Rejected => exc[1].message = Msg.PriceInvalid
        /\ ~( /\ ~SymbolMissing(order) /\ ~SideBad(order)
              /\ ~QuantityFails(order) )
              => /\ validate(order).reason
                       \in {Some(Msg.SymbolRequired), Some(Msg.SideInvalid),
                            Some(Msg.QuantityInvalid)}
                 /\ validate(order).reason = Some(Reasons[FirstBroken(order)])

\* A LIMIT request with price 0 and a nan for its quantity is rejected for
\* its price.
C13_Witness ==
    /\ Rejected
    /\ order.order_type = "LIMIT" /\ order.price = Some(Float(0))
    /\ order.quantity = OddFloats.NaN
    /\ exc[1].message = Msg.PriceInvalid

\* C14: validate() returns (True, None) exactly for the requests that
\* satisfy the Order Request invariant: a non-empty symbol, side BUY or
\* SELL, order_type MARKET or LIMIT, quantity > 0 and, for LIMIT, a price
\* that is present and > 0; a MARKET request is valid whatever its price.
C14_ValidIffInvariant ==
    /\ (validate(order) = [ok |-> TRUE, reason |-> None])
           <=> InvariantHolds(order)
    /\ validate(order).ok <=> InvariantHolds(order)
    /\ (pc = "send") => InvariantHolds(order)
    /\ Rejected => ~InvariantHolds(order)
    /\ ( /\ ~SymbolMissing(order) /\ ~SideBad(order) /\ ~QuantityBad(order)
         /\ order.order_type = "MARKET" ) => validate(order).ok

----------------------------------------------------------------------------
\* Case of the string fields (spec 4.1) and immutability of the request.

\* C15: the gateway keeps symbol, side and order_type as given, so a
\* request constructed with side "buy" or order_type "market" is rejected by
\* validate() and by place_order; CLI.run and the order tools upper-case
\* what they are given before they construct the request, which then passes
\* the enum checks.
C15_CaseKeptByGatewayUpperedByCallers ==
    (pc /= "build") =>
        /\ (caller = "OrderRequest") =>
               /\ order.symbol = args.symbol
               /\ order.side = args.side
               /\ order.order_type = args.order_type
               /\ (args.side = "buy" \/ args.order_type = "market") =>
                      /\ ~validate(order).ok
                      /\ calls = 0
                      /\ Done => /\ result.kind = "raise"
                                 /\ result.exc.type = "ValueError"
        /\ (caller = "CLI.run") =>
               /\ (args.symbol = "btcusdt") => order.symbol = "BTCUSDT"
               /\ (args.side = "buy") => order.side = "BUY"
               /\ (args.side = "sell") => order.side = "SELL"
               /\ (args.order_type = "market") => order.order_type = "MARKET"
               /\ (args.order_type = "limit") => order.order_type = "LIMIT"
               /\ (args.side \in {"BUY", "buy", "sell"}) => ~SideBad(order)
               /\ (args.order_type \in {"MARKET", "market", "limit"}) =>
                      ~TypeBad(order)
        /\ (caller \in {"place_market_order", "place_limit_order"}) =>
               /\ (args.symbol = "btcusdt") => order.symbol = "BTCUSDT"
               /\ (args.side = "buy") => order.side = "BUY"
               /\ (args.side = "sell") => order.side = "SELL"
               /\ (args.side \in {"BUY", "buy", "sell"}) => ~SideBad(order)
               /\ ~TypeBad(order)

C15_Witness ==
    /\ Done
    /\ caller = "CLI.run"
    /\ args.symbol = "btcusdt" /\ args.side = "buy"
    /\ args.order_type = "market"
    /\ Len(sent) = 1
    /\ sent[1].side = "BUY" /\ sent[1].type = "MARKET"

\* C16: every validate() of one request returns the same (bool, reason),
\* a validation step changes nothing but the position of the call, and no
\* step of place_order changes a field of the request.
C16_ValidateRepeatableRequestImmutable ==
    /\ [](\A i \in 1..Len(validated) : validated[i] = validated[1])
    /\ [][order' = order]_vars
    /\ [][(pc = "body") =>
              UNCHANGED <<order, script, attempt, last_exception, result,
                          calls, sent, sleeps>>]_vars

C16_Witness ==
    /\ Done
    /\ Len(validated) = max_retries
    /\ validated[max_retries] = validated[1]
    /\ ~validated[1].ok

----------------------------------------------------------------------------
\* The query tools: get_account_balance and get_position_info of
\* tools/binance_tools.py (credentials from the environment) and of
\* tools/streamlit_tools.py (credentials as arguments).

MaxAssets == 2
MaxPositions == 2

\* The literals of get_account_balance and get_position_info
\* (tools/binance_tools.py, lines 136-182).
QueryText ==
    \* "<U+1F4CA> Account Balance:\n\n"
    [ BalanceHeader |->
          <<"<U+1F4CA>"," ","A","c","c","o","u","n","t"," ","B","a","l","a",
            "n","c","e",":","\n","\n">>,
    \* "No balance found in account."
      NoBalance |->
          <<"N","o"," ","b","a","l","a","n","c","e"," ","f","o","u","n","d",
            " ","i","n"," ","a","c","c","o","u","n","t",".">>,
    \* "Asset: "
      Asset |->
          <<"A","s","s","e","t",":"," ">>,
    \* "\nWallet Balance: "
      WalletBalance |->
          <<"\n","W","a","l","l","e","t"," ","B","a","l","a","n","c","e",
            ":"," ">>,
    \* "\nAvailable Balance: "
      AvailableBalance |->
          <<"\n","A","v","a","i","l","a","b","l","e"," ","B","a","l","a",
            "n","c","e",":"," ">>,
    \* "\n\n"
      BlankLine |->
          <<"\n","\n">>,
    \* "<U+274C> Error fetching account balance: "
      ErrorBalance |->
          <<"<U+274C>"," ","E","r","r","o","r"," ","f","e","t","c","h","i",
            "n","g"," ","a","c","c","o","u","n","t"," ","b","a","l","a","n",
            "c","e",":"," ">>,
    \* "<U+274C> Error fetching position info: "
      ErrorPosition |->
          <<"<U+274C>"," ","E","r","r","o","r"," ","f","e","t","c","h","i",
            "n","g"," ","p","o","s","i","t","i","o","n"," ","i","n","f","o",
            ":"," ">>,
    \* "No open position for "
      NoOpenPosition |->
          <<"N","o"," ","o","p","e","n"," ","p","o","s","i","t","i","o","n",
            " ","f","o","r"," ">>,
    \* "No position information found for "
      NoPositionInfo |->
          <<"N","o"," ","p","o","s","i","t","i","o","n"," ","i","n","f","o",
            "r","m","a","t","i","o","n"," ","f","o","u","n","d"," ","f","o",
            "r"," ">>,
    \* "<U+1F4C8> Position Information for "
      PositionHeader |->
          <<"<U+1F4C8>"," ","P","o","s","i","t","i","o","n"," ","I","n","f",
            "o","r","m","a","t","i","o","n"," ","f","o","r"," ">>,
    \* ":\nPosition Size: "
      PositionSize |->
          <<":","\n","P","o","s","i","t","i","o","n"," ","S","i","z","e",
            ":"," ">>,
    \* "\nEntry Price: "
      EntryPrice |->
          <<"\n","E","n","t","r","y"," ","P","r","i","c","e",":"," ">>,
    \* "\nMark Price: "
      MarkPrice |->
          <<"\n","M","a","r","k"," ","P","r","i","c","e",":"," ">>,
    \* "\nUnrealized PnL: "
      UnrealizedPnL |->
          <<"\n","U","n","r","e","a","l","i","z","e","d"," ","P","n","L",
            ":"," ">>,
    \* "\nLeverage: "
      Leverage |->
          <<"\n","L","e","v","e","r","a","g","e",":"," ">> ]
\* The texts the exchange sends in the sample account and position records.
SampleText ==
    \* "USDT"
    [ USDT |-> <<"U","S","D","T">>,
    \* "BTC"
      BTC |-> <<"B","T","C">>,
    \* "BTCUSDT"
      BTCUSDT |-> <<"B","T","C","U","S","D","T">>,
    \* "10000.0"
      N10000 |-> <<"1","0","0","0","0",".","0">>,
    \* "9500.0"
      N9500 |-> <<"9","5","0","0",".","0">>,
    \* "0.001"
      Milli |-> <<"0",".","0","0","1">>,
    \* "0.0"
      ZeroPointZero |-> <<"0",".","0">>,
    \* "-0.5"
      MinusHalf |-> <<"-","0",".","5">>,
    \* "0"
      Zero |-> <<"0">>,
    \* "0.000"
      ZeroPadded |-> <<"0",".","0","0","0">>,
    \* "n/a"
      NA |-> <<"n","/","a">>,
    \* "49000.00"
      N49000 |-> <<"4","9","0","0","0",".","0","0">>,
    \* "50000.00"
      N50000 |-> <<"5","0","0","0","0",".","0","0">>,
    \* "1.0"
      OnePointZero |-> <<"1",".","0">>,
    \* "10"
      Ten |-> <<"1","0">>,
    \* "1e-8"
      Tiny |-> <<"1","e","-","8">>,
    \* "nan"
      NaN |-> <<"n","a","n">> ]

\* The sequences over S of length at most n.
SeqUpTo(S, n) == UNION {[1..k -> S] : k \in 0..n}

\* repr(s) of a str, as the float error message shows it: in single quotes
\* (in double quotes when s has a single and no double quote), the
\* backslash, the quote in use and every character that is not printable
\* escaped.  Code points that Unicode leaves unassigned, private-use code
\* points and lone surrogates, which repr escapes too, are not among the
\* characters of this model.
str_repr(cs) ==
    LET has(q) == \E i \in 1..Len(cs) : cs[i] = q
        quote == IF has("'") /\ ~has("\"") THEN "\"" ELSE "'"
        escaped(c) ==
            IF c = "\\" THEN <<"\\","\\">>
            ELSE IF c = quote THEN <<"\\", c>>
            ELSE IF \E p \in ReprEscapes : p[1] = c
            THEN (CHOOSE p \in ReprEscapes : p[1] = c)[2]
            ELSE <<c>>
        parts == [i \in 1..Len(cs) |-> escaped(cs[i])]
    IN  <<quote>> \o join(<<>>, parts) \o <<quote>>

\* The two values at which float rounds away from the finite non-zero
\* doubles, written exactly as 0.<digits> * 10^point: 2^-1075, at or below
\* which a value rounds to zero, and 2^1024 - 2^970, at or above which it
\* rounds to infinity.
FloatRange ==
    [ Underflow |->
          [digits |-> <<"2","4","7","0","3","2","8","2","2","9","2","0","6","2",
                        "3","2","7","2","0","8","8","2","8","4","3","9","6","4",
                        "3","4","1","1","0","6","8","6","1","8","2","5","2","9",
                        "9","0","1","3","0","7","1","6","2","3","8","2","2","1",
                        "2","7","9","2","8","4","1","2","5","0","3","3","7","7",
                        "5","3","6","3","5","1","0","4","3","7","5","9","3","2",
                        "6","4","9","9","1","8","1","8","0","8","1","7","9","9",
                        "6","1","8","9","8","9","8","2","8","2","3","4","7","7",
                        "2","2","8","5","8","8","6","5","4","6","3","3","2","8",
                        "3","5","5","1","7","7","9","6","9","8","9","8","1","9",
                        "9","3","8","7","3","9","8","0","0","5","3","9","0","9",
                        "3","9","0","6","3","1","5","0","3","5","6","5","9","5",
                        "1","5","5","7","0","2","2","6","3","9","2","2","9","0",
                        "8","5","8","3","9","2","4","4","9","1","0","5","1","8",
                        "4","4","3","5","9","3","1","8","0","2","8","4","9","9",
                        "3","6","5","3","6","1","5","2","5","0","0","3","1","9",
                        "3","7","0","4","5","7","6","7","8","2","4","9","2","1",
                        "9","3","6","5","6","2","3","6","6","9","8","6","3","6",
                        "5","8","4","8","0","7","5","7","0","0","1","5","8","5",
                        "7","6","9","2","6","9","9","0","3","7","0","6","3","1",
                        "1","9","2","8","2","7","9","5","5","8","5","5","1","3",
                        "3","2","9","2","7","8","3","4","3","3","8","4","0","9",
                        "3","5","1","9","7","8","0","1","5","5","3","1","2","4",
                        "6","5","9","7","2","6","3","5","7","9","5","7","4","6",
                        "2","2","7","6","6","4","6","5","2","7","2","8","2","7",
                        "2","2","0","0","5","6","3","7","4","0","0","6","4","8",
                        "5","4","9","9","9","7","7","0","9","6","5","9","9","4",
                        "7","0","4","5","4","0","2","0","8","2","8","1","6","6",
                        "2","2","6","2","3","7","8","5","7","3","9","3","4","5",
                        "0","7","3","6","3","3","9","0","0","7","9","6","7","7",
                        "6","1","9","3","0","5","7","7","5","0","6","7","4","0",
                        "1","7","6","3","2","4","6","7","3","6","0","0","9","6",
                        "8","9","5","1","3","4","0","5","3","5","5","3","7","4",
                        "5","8","5","1","6","6","6","1","1","3","4","2","2","3",
                        "7","6","6","6","7","8","6","0","4","1","6","2","1","5",
                        "9","6","8","0","4","6","1","9","1","4","4","6","7","2",
                        "9","1","8","4","0","3","0","0","5","3","0","0","5","7",
                        "5","3","0","8","4","9","0","4","8","7","6","5","3","9",
                        "1","7","1","1","3","8","6","5","9","1","6","4","6","2",
                        "3","9","5","2","4","9","1","2","6","2","3","6","5","3",
                        "8","8","1","8","7","9","6","3","6","2","3","9","3","7",
                        "3","2","8","0","4","2","3","8","9","1","0","1","8","6",
                        "7","2","3","4","8","4","9","7","6","6","8","2","3","5",
                        "0","8","9","8","6","3","3","8","8","5","8","7","9","2",
                        "5","6","2","8","3","0","2","7","5","5","9","9","5","6",
                        "5","7","5","2","4","4","5","5","5","0","7","2","5","5",
                        "1","8","9","3","1","3","6","9","0","8","3","6","2","5",
                        "4","7","7","9","1","8","6","9","4","8","6","6","7","9",
                        "9","4","9","6","8","3","2","4","0","4","9","7","0","5",
                        "8","2","1","0","2","8","5","1","3","1","8","5","4","5",
                        "1","3","9","6","2","1","3","8","3","7","7","2","2","8",
                        "2","6","1","4","5","4","3","7","6","9","3","4","1","2",
                        "5","3","2","0","9","8","5","9","1","3","2","7","6","6",
                        "7","2","3","6","3","2","8","1","2","5">>,
           point |-> -323],
      Overflow |->
          [digits |-> <<"1","7","9","7","6","9","3","1","3","4","8","6","2","3",
                        "1","5","8","0","7","9","3","7","2","8","9","7","1","4",
                        "0","5","3","0","3","4","1","5","0","7","9","9","3","4",
                        "1","3","2","7","1","0","0","3","7","8","2","6","9","3",
                        "6","1","7","3","7","7","8","9","8","0","4","4","4","9",
                        "6","8","2","9","2","7","6","4","7","5","0","9","4","6",
                        "6","4","9","0","1","7","9","7","7","5","8","7","2","0",
                        "7","0","9","6","3","3","0","2","8","6","4","1","6","6",
                        "9","2","8","8","7","9","1","0","9","4","6","5","5","5",
                        "5","4","7","8","5","1","9","4","0","4","0","2","6","3",
                        "0","6","5","7","4","8","8","6","7","1","5","0","5","8",
                        "2","0","6","8","1","9","0","8","9","0","2","0","0","0",
                        "7","0","8","3","8","3","6","7","6","2","7","3","8","5",
                        "4","8","4","5","8","1","7","7","1","1","5","3","1","7",
                        "6","4","4","7","5","7","3","0","2","7","0","0","6","9",
                        "8","5","5","5","7","1","3","6","6","9","5","9","6","2",
                        "2","8","4","2","9","1","4","8","1","9","8","6","0","8",
                        "3","4","9","3","6","4","7","5","2","9","2","7","1","9",
                        "0","7","4","1","6","8","4","4","4","3","6","5","5","1",
                        "0","7","0","4","3","4","2","7","1","1","5","5","9","6",
                        "9","9","5","0","8","0","9","3","0","4","2","8","8","0",
                        "1","7","7","9","0","4","1","7","4","4","9","7","7","9",
                        "2">>,
           point |-> 309] ]

\* The order of 0.<digits> * 10^point and the value t: -1 below it, 0 equal
\* to it, 1 above it.  Neither digit string begins or ends with a zero, so
\* when one is a proper prefix of the other it denotes the smaller value.
decimal_cmp(digits, point, t) ==
    LET shorter == IF Len(digits) < Len(t.digits) THEN Len(digits)
                   ELSE Len(t.digits)
        differ == {i \in 1..shorter : digits[i] /= t.digits[i]}
        first == CHOOSE i \in differ : \A j \in differ : i <= j
    IN  IF point /= t.point THEN (IF point < t.point THEN -1 ELSE 1)
        ELSE IF differ /= {} THEN
            (IF digit_value(digits[first]) < digit_value(t.digits[first])
             THEN -1 ELSE 1)
        ELSE IF Len(digits) < Len(t.digits) THEN -1
        ELSE IF Len(digits) > Len(t.digits) THEN 1
        ELSE 0

\* The text without the blanks around it, as float reads it: the blanks
\* are the ASCII white space (space, \t, \n, \x0b, \f, \r) and the
\* white space beyond ASCII.  The separators \x1c to \x1f, which
\* str.strip() drops, are no blanks to float.
float_strip(cs) ==
    LET inner == {i \in 1..Len(cs) :
                      cs[i] \notin
                          {" ", "\t", "\n", "<U+000B>", "\f", "\r",
                           "<U+0085>", "<U+00A0>", "<U+1680>", "<U+2000>",
                           "<U+2001>", "<U+2002>", "<U+2003>", "<U+2004>",
                           "<U+2005>", "<U+2006>", "<U+2007>", "<U+2008>",
                           "<U+2009>", "<U+200A>", "<U+2028>", "<U+2029>",
                           "<U+202F>", "<U+205F>", "<U+3000>"}}
    IN  IF inner = {} THEN <<>>
        ELSE SubSeq(cs, CHOOSE i \in inner : \A j \in inner : i <= j,
                        CHOOSE i \in inner : \A j \in inner : i >= j)

\* float: the double nearest to sign * 0.<digits> * 10^point, where the
\* point stands after the first  whole  of the digits and the exponent,
\* the digit string  edigits  of any length with its sign, shifts it:
\* zero, finite or inf.  The record keeps the value read.  The point is
\* the exact sum a + E of the place a of the first significant digit and
\* the exponent E, but for an exponent of five or more digits that has two
\* digits more than a: there |a + E| >= |E| - |a| >= 9000, beyond both
\* thresholds, and the point is put at 9000 on the side of E.
float_round(sign, digits, whole, enegative, edigits) ==
    LET nonzero == {i \in 1..Len(digits) : digits[i] /= "0"}
        enonzero == {i \in 1..Len(edigits) : edigits[i] /= "0"}
        e == IF enonzero = {} THEN <<>>
             ELSE SubSeq(edigits, CHOOSE i \in enonzero :
                                      \A j \in enonzero : i <= j,
                         Len(edigits))
        shifted(a) ==
            IF /\ Len(e) >= 5
               /\ Len(e) >= Len(nat_str(IF a < 0 THEN -a ELSE a)) + 2
            THEN (IF enegative THEN -9000 ELSE 9000)
            ELSE IF enegative THEN a - digits_value(e)
            ELSE a + digits_value(e)
        special(class) ==
            [sign |-> sign, class |-> class, digits |-> <<>>, point |-> 0]
        rounded(significant, point) ==
            IF decimal_cmp(significant, point, FloatRange.Underflow) <= 0
            THEN special("zero")
            ELSE IF decimal_cmp(significant, point, FloatRange.Overflow) >= 0
            THEN special("inf")
            ELSE [sign |-> sign, class |-> "finite",
                  digits |-> significant, point |-> point]
        between(lead, last) ==
            rounded(SubSeq(digits, lead, last), shifted(whole - (lead - 1)))
    IN  IF nonzero = {} THEN special("zero")
        ELSE between(CHOOSE i \in nonzero : \A j \in nonzero : i <= j,
                     CHOOSE i \in nonzero : \A j \in nonzero : i >= j)

\* float(s) of a str: blanks around the text are dropped and a decimal
\* digit of any script is read as its ASCII digit; the text is then an
\* optional sign and inf, infinity or nan in any case of the ASCII
\* letters (a dotless or dotted i is no i), or a decimal
\* number: digits with at most one point and at least one digit, then an
\* optional exponent (e or E, an optional sign, at least one digit); an
\* underscore may stand between two digits.  Any other string raises
\* ValueError("could not convert string to float: " repr(s)).  The steps
\* read from the last definition upwards.
float(cs) ==
    LET \* the number is well formed: round it
        fields(sign, wellformed, whole, fraction, enegative, edigits) ==
            IF wellformed
            THEN Returns(float_round(sign, whole \o fraction, Len(whole),
                                     enegative, edigits))
            ELSE Raises(ValueError(Txt.FloatError \o str_repr(cs)))
        \* the mantissa m is split at its point, the exponent text at its
        \* sign
        parts(sign, ok, m, has_e, etext) ==
            LET points == {i \in 1..Len(m) : m[i] = "."}
                ppos == IF points = {} THEN Len(m) + 1
                        ELSE CHOOSE i \in points : \A j \in points : i <= j
                esigned == etext /= <<>> /\ etext[1] \in {"+", "-"}
                digits == SelectSeq(m, LAMBDA c : c /= ".")
                edigits == IF esigned THEN Tail(etext) ELSE etext
            IN  fields(sign,
                       /\ ok
                       /\ Cardinality(points) <= 1
                       /\ digits /= <<>>
                       /\ \A i \in 1..Len(digits) : IsDigit(digits[i])
                       /\ has_e => edigits /= <<>>
                       /\ \A i \in 1..Len(edigits) : IsDigit(edigits[i]),
                       SubSeq(m, 1, ppos - 1),
                       SubSeq(m, ppos + 1, Len(m)),
                       esigned /\ etext[1] = "-",
                       edigits)
        \* the text without underscores is split at its e or E
        decimal(sign, ok, plain) ==
            LET es == {i \in 1..Len(plain) : plain[i] \in {"e", "E"}}
                epos == IF es = {} THEN Len(plain) + 1
                        ELSE CHOOSE i \in es : \A j \in es : i <= j
            IN  parts(sign, ok /\ Cardinality(es) <= 1,
                      SubSeq(plain, 1, epos - 1), es /= {},
                      SubSeq(plain, epos + 1, Len(plain)))
        \* the text after the sign: a special word, or a decimal number
        unsigned(sign, body) ==
            LET spells(w) ==
                    /\ Len(body) = Len(w)
                    /\ \A i \in 1..Len(w) : body[i] \in w[i]
                special(class) ==
                    Returns([sign |-> sign, class |-> class,
                             digits |-> <<>>, point |-> 0])
            IN  IF \/ spells(<<{"i","I"}, {"n","N"}, {"f","F"}>>)
                   \/ spells(<<{"i","I"}, {"n","N"}, {"f","F"}, {"i","I"},
                               {"n","N"}, {"i","I"}, {"t","T"}, {"y","Y"}>>)
                THEN special("inf")
                ELSE IF spells(<<{"n","N"}, {"a","A"}, {"n","N"}>>)
                THEN special("nan")
                ELSE decimal(sign,
                             \A i \in 1..Len(body) :
                                 body[i] = "_" =>
                                     /\ 1 < i
                                     /\ i < Len(body)
                                     /\ IsDigit(body[i - 1])
                                     /\ IsDigit(body[i + 1]),
                             SelectSeq(body, LAMBDA c : c /= "_"))
        \* every decimal digit becomes its ASCII digit
        ascii(text) ==
            [i \in 1..Len(text) |->
                 IF IsDigit(text[i]) THEN DigitChars[digit_value(text[i]) + 1]
                 ELSE text[i]]
        \* the stripped text: an optional sign and the rest
        signed(text) ==
            unsigned(IF text /= <<>> /\ text[1] = "-" THEN -1 ELSE 1,
                     IF text /= <<>> /\ text[1] \in {"+", "-"}
                     THEN Tail(text) ELSE text)
    IN  signed(ascii(float_strip(cs)))


\* dict.get(key, default) for the key "assets".
get_assets(account_info, default) ==
    IF "assets" \in DOMAIN account_info THEN account_info.assets
    ELSE default

\* The f-string of one reported asset.
balance_entry(balance) ==
    QueryText.Asset \o balance.asset
    \o QueryText.WalletBalance \o balance.walletBalance
    \o QueryText.AvailableBalance \o balance.availableBalance

\* The loop of get_account_balance with the test  >= 0  in place of  > 0.
RECURSIVE balance_info_zero_included(_)
balance_info_zero_included(assets) ==
    IF assets = <<>> THEN Returns(<<>>)
    ELSE
        LET wallet == float(assets[1].walletBalance)
        IN  IF wallet.kind = "raise" THEN wallet
            ELSE
                LET rest == balance_info_zero_included(Tail(assets))
                IN  IF rest.kind = "raise" THEN rest
                    ELSE IF (wallet.value.class = "zero"
                             \/ float_gt_zero(wallet.value)) THEN
                        Returns(<<balance_entry(assets[1])>> \o rest.value)
                    ELSE rest

\* The loop of get_account_balance: the entries of the assets whose wallet
\* balance is positive, in order; the first unparsable balance raises.
RECURSIVE balance_info(_)
balance_info(assets) ==
    IF assets = <<>> THEN Returns(<<>>)
    ELSE
        LET wallet == float(assets[1].walletBalance)
        IN  IF wallet.kind = "raise" THEN wallet
            ELSE
                LET rest == balance_info(Tail(assets))
                IN  IF rest.kind = "raise" THEN rest
                    ELSE IF float_gt_zero(wallet.value) THEN
                        Returns(<<balance_entry(assets[1])>> \o rest.value)
                    ELSE rest

\* get_account_balance after the request: the returned text, or the
\* exception on its way to the except clause.
balance_text(account_info) ==
    LET info == balance_info(get_assets(account_info, <<>>))
    IN  IF info.kind = "raise" THEN info
        ELSE IF info.value /= <<>> THEN
            Returns(QueryText.BalanceHeader
                    \o join(QueryText.BlankLine, info.value))
        ELSE Returns(QueryText.NoBalance)

\* The f-string of the position details.
position_details(pos) ==
    QueryText.PositionHeader \o pos.symbol
    \o QueryText.PositionSize \o pos.positionAmt
    \o QueryText.EntryPrice \o pos.entryPrice
    \o QueryText.MarkPrice \o pos.markPrice
    \o QueryText.UnrealizedPnL \o pos.unRealizedProfit
    \o QueryText.Leverage \o pos.leverage

\* get_position_info after the request, with the test  > 0  in place
\* of  != 0.
position_text_long_only(symbol, positions) ==
    IF positions /= <<>> THEN
        LET pos == positions[1]
            amt == float(pos.positionAmt)
        IN  IF amt.kind = "raise" THEN amt
            ELSE IF float_gt_zero(amt.value) THEN
                Returns(position_details(pos))
            ELSE Returns(QueryText.NoOpenPosition \o Spelling(symbol))
    ELSE Returns(QueryText.NoPositionInfo \o Spelling(symbol))

\* get_position_info after the request.
position_text(symbol, positions) ==
    IF positions /= <<>> THEN
        LET pos == positions[1]
            amt == float(pos.positionAmt)
        IN  IF amt.kind = "raise" THEN amt
            ELSE IF float_ne_zero(amt.value) THEN
                Returns(position_details(pos))
            ELSE Returns(QueryText.NoOpenPosition \o Spelling(symbol))
    ELSE Returns(QueryText.NoPositionInfo \o Spelling(symbol))

\* The except clause of a query tool.
error_prefix(name) ==
    IF name = "get_account_balance" THEN QueryText.ErrorBalance
    ELSE QueryText.ErrorPosition
tool_except(name, e) == Returns(error_prefix(name) \o exc_str(e))

\* Python's  not s  on an optional string.
falsy(s) == s = None \/ s = Some("")

\* A constructor that does not keep the flag it is given.
BinanceFuturesClient_flag_dropped(api_key, api_secret, testnet, conn) ==
    IF conn.kind = "raise" THEN conn
    ELSE Returns([api_key |-> api_key, api_secret |-> api_secret,
                  testnet |-> TRUE,
                  futures_url |-> Some("https://testnet.binancefuture.com")])

\* BinanceFuturesClient.__init__: the client object, unless constructing
\* binance.client.Client raises. FUTURES_URL is overridden for the test
\* network and left at the library's default otherwise.
BinanceFuturesClient(api_key, api_secret, testnet, conn) ==
    IF conn.kind = "raise" THEN conn
    ELSE Returns([api_key |-> api_key, api_secret |-> api_secret,
                  testnet |-> testnet,
                  futures_url |->
                      IF testnet
                      THEN Some("https://testnet.binancefuture.com")
                      ELSE None])

\* BinanceFuturesClient.__init__, line 106: the arguments Client is
\* constructed with.
Client(api_key, api_secret, testnet) ==
    [api_key |-> api_key, api_secret |-> api_secret, testnet |-> testnet]

\* get_client of the two modules: does it reach the constructor?
get_client_constructs(module, c) ==
    ~(module = "binance_tools" /\ (falsy(c.api_key) \/ falsy(c.api_secret)))

\* get_client of the two modules.
get_client(module, c, conn) ==
    IF module = "binance_tools" /\ (falsy(c.api_key) \/ falsy(c.api_secret))
    THEN Raises(ValueError(Msg.EnvRequired))
    ELSE BinanceFuturesClient(c.api_key, c.api_secret, TRUE, conn)


\* The characters of a credential.
CredentialText(s) ==
    CASE s = "" -> <<>>
      [] s = "key" -> <<"k","e","y">>
      [] s = "secret" -> <<"s","e","c","r","e","t">>

\* A first statement that logs every argument of the tool, the credentials
\* included.
tool_invoked_all_arguments(name, a, c) ==
    <<Log("INFO",
          (CASE name = "place_market_order" -> LogText.InvokedMarket
             [] name = "place_limit_order" -> LogText.InvokedLimit
             [] name = "get_account_balance" -> LogText.InvokedBalance
             [] name = "get_position_info" -> LogText.InvokedPosition)
          \o CredentialText(c.api_key[1]) \o LogText.Comma
          \o CredentialText(c.api_secret[1]) \o <<")">>)>>

\* The first statement of a tool of streamlit_tools.py (lines 32, 93-95,
\* 152 and 195): the call is logged with its arguments a, without the
\* arguments api_key and api_secret (c).
tool_invoked(name, a, c) ==
    <<Log("INFO",
          (CASE name = "place_market_order" ->
                    LogText.InvokedMarket \o Spelling(a.symbol)
                    \o LogText.Comma \o Spelling(a.side)
                    \o LogText.Comma \o float_str(a.quantity)
             [] name = "place_limit_order" ->
                    LogText.InvokedLimit \o Spelling(a.symbol)
                    \o LogText.Comma \o Spelling(a.side)
                    \o LogText.Comma \o float_str(a.quantity)
                    \o LogText.Comma \o optional_float_str(a.price)
             [] name = "get_account_balance" -> LogText.InvokedBalance
             [] name = "get_position_info" ->
                    LogText.InvokedPosition \o Spelling(a.symbol))
          \o <<")">>)>>

\* get_client of the two modules: the tool of streamlit_tools.py logs its
\* call, and the constructor, when reached, logs the network.
get_client_logs(t, a, c) ==
    (IF t.module = "streamlit_tools" THEN tool_invoked(t.name, a, c)
     ELSE <<>>)
    \o (IF get_client_constructs(t.module, c) THEN init_logs(TRUE)
        ELSE <<>>)

\* get_account_balance of streamlit_tools.py, lines 167-174, for the list
\* balance_info the loop has built (or the exception it raised).
balance_logs(info) ==
    IF info.kind = "raise" THEN <<>>
    ELSE IF info.value /= <<>> THEN
        <<Log("INFO", LogText.BalanceRetrieved
                      \o int_str(Len(info.value))
                      \o LogText.AssetsNonZero)>>
    ELSE <<Log("WARNING", LogText.NoBalance)>>

\* get_position_info of streamlit_tools.py, lines 202-220.
position_logs(symbol, positions) ==
    IF positions /= <<>> THEN
        LET pos == positions[1]
            amt == float(pos.positionAmt)
        IN  IF amt.kind = "raise" THEN <<>>
            ELSE IF float_ne_zero(amt.value) THEN
                <<Log("INFO", LogText.PositionFound \o Spelling(symbol)
                              \o <<":", " ">> \o pos.positionAmt
                              \o LogText.Units)>>
            ELSE <<Log("INFO", LogText.NoOpenPosition
                               \o Spelling(symbol))>>
    ELSE <<Log("WARNING", LogText.NoPositionInfo \o Spelling(symbol))>>

\* The except clause of a query tool of streamlit_tools.py, lines 177 and
\* 223.
tool_except_logs(name, e) ==
    <<Log("ERROR", (IF name = "get_account_balance"
                    THEN LogText.ErrorBalance
                    ELSE LogText.ErrorPosition) \o exc_str(e))>>

\* The request a query tool issues.
query_call(name, symbol) ==
    IF name = "get_account_balance" THEN
        [endpoint |-> "futures_account", symbol |-> None]
    ELSE [endpoint |-> "futures_position_information",
          symbol |-> Some(upper(symbol))]

\* Inputs of the query tools.
QueryTools ==
    [module : {"binance_tools", "streamlit_tools"},
     name : {"get_account_balance", "get_position_info"}]

\* os.getenv gives None for an unset variable; the streamlit tools take
\* strings.
Credentials(module) ==
    { [api_key |-> Some("key"), api_secret |-> Some("secret")],
      [api_key |-> Some("key"), api_secret |-> Some("")] }
    \cup (IF module = "binance_tools"
          THEN {[api_key |-> None, api_secret |-> Some("secret")]}
          ELSE {})

Connects ==
    { Returns("Client"),
      Raises(OtherException("ConnectionError", Msg.TimedOut)) }

WalletBalances ==
    {SampleText.N10000, SampleText.Milli, SampleText.ZeroPointZero,
     SampleText.MinusHalf, SampleText.NA, SampleText.Tiny, SampleText.NaN}
AssetRecords ==
    [asset : {SampleText.USDT, SampleText.BTC}, walletBalance : WalletBalances,
     availableBalance : {SampleText.N9500}]
AccountInfos ==
    {[assets |-> l] : l \in SeqUpTo(AssetRecords, MaxAssets)}
    \cup {[canTrade |-> TRUE]}

PositionAmts ==
    {SampleText.Zero, SampleText.ZeroPadded, SampleText.Milli,
     SampleText.MinusHalf, SampleText.NA, SampleText.Tiny, SampleText.NaN}
PositionRecords ==
    [symbol : {SampleText.BTCUSDT}, positionAmt : PositionAmts,
     entryPrice : {SampleText.N49000}, markPrice : {SampleText.N50000},
     unRealizedProfit : {SampleText.OnePointZero}, leverage : {SampleText.Ten}]
PositionLists == SeqUpTo(PositionRecords, MaxPositions)

QueryErrors ==
    ExchangeErrors
    \cup {OtherException("HTTPError", Msg.ServiceUnavailable)}
Replies(name) ==
    {Raises(e) : e \in QueryErrors}
    \cup (IF name = "get_account_balance"
          THEN {Returns(d) : d \in AccountInfos}
          ELSE {Returns(d) : d \in PositionLists})

\* A query tool is about to be invoked; no order is in progress.
InitQuery ==
    /\ PlaceOrderDecorated
    /\ CollabIdle
    /\ GatewaysIdle
    /\ pc = "none"
    /\ order = None
    /\ script = <<>>
    /\ attempt = 0
    /\ last_exception = None
    /\ exc = None
    /\ result = [kind |-> "none"]
    /\ validations = 0
    /\ calls = <<>>
    /\ sent = <<>>
    /\ sleeps = <<>>
    /\ validated = <<>>
    /\ caller = "tool"
    /\ args = None
    /\ qpc = "get_client"
    /\ tool \in {Some(t) : t \in QueryTools}
    /\ creds \in {Some(c) : c \in Credentials(tool[1].module)}
    /\ connect \in {Some(c) : c \in Connects}
    /\ qsymbol \in (IF tool[1].name = "get_position_info" THEN Args.symbol
                    ELSE {""})
    /\ reply \in {Some(r) : r \in Replies(tool[1].name)}
    /\ client = None
    /\ data = None
    /\ qexc = None
    /\ requests = <<>>
    /\ ret = [kind |-> "none"]
    /\ logs = <<>>

orderVars == <<pc, order, script, attempt, last_exception, exc, result,
               validations, calls, sent, sleeps, validated, callerVars>>

\* client = get_client(...)
query_get_client ==
    /\ qpc = "get_client"
    /\ LET c == get_client(tool[1].module, creds[1], connect[1])
       IN  IF c.kind = "raise"
           THEN /\ qexc' = Some(c.exc)
                /\ qpc' = "except"
                /\ UNCHANGED client
           ELSE /\ client' = Some(c.value)
                /\ qpc' = "request"
                /\ UNCHANGED qexc
    /\ connections' =
          IF get_client_constructs(tool[1].module, creds[1])
          THEN Append(connections,
                      Client(creds[1].api_key, creds[1].api_secret, TRUE))
          ELSE connections
    /\ logs' = logs \o get_client_logs(tool[1], [symbol |-> qsymbol],
                                        creds[1])
    /\ UNCHANGED <<tool, creds, connect, qsymbol, reply, data, requests, ret,
                   orderVars, retryVars, gatewayVars, printed, stand_in>>

\* A request that is issued once more after a gateway error.
query_request_retried ==
    /\ qpc = "request"
    /\ LET call == query_call(tool[1].name, qsymbol)
       IN  IF reply[1].kind = "raise"
           THEN /\ requests' =
                       IF is_gateway_error(exc_str(reply[1].exc))
                       THEN requests \o <<call, call>>
                       ELSE Append(requests, call)
                /\ qexc' = Some(reply[1].exc)
                /\ qpc' = "except"
                /\ UNCHANGED data
           ELSE /\ requests' = Append(requests, call)
                /\ data' = Some(reply[1].value)
                /\ qpc' = "render"
                /\ UNCHANGED qexc
    /\ UNCHANGED <<tool, creds, connect, qsymbol, reply, client, ret,
                   orderVars, retryVars, gatewayVars, collabVars, logs>>

\* client.client.futures_account() /
\* client.client.futures_position_information(symbol=symbol.upper())
query_request ==
    /\ qpc = "request"
    /\ requests' = Append(requests, query_call(tool[1].name, qsymbol))
    /\ IF reply[1].kind = "raise"
       THEN /\ qexc' = Some(reply[1].exc)
            /\ qpc' = "except"
            /\ UNCHANGED data
       ELSE /\ data' = Some(reply[1].value)
            /\ qpc' = "render"
            /\ UNCHANGED qexc
    /\ UNCHANGED <<tool, creds, connect, qsymbol, reply, client, ret,
                   orderVars, retryVars, gatewayVars, collabVars, logs>>

\* The rest of the try block: the text is returned, or float raises.
query_render ==
    /\ qpc = "render"
    /\ LET text == IF tool[1].name = "get_account_balance"
                   THEN balance_text(data[1])
                   ELSE position_text(qsymbol, data[1])
       IN  IF text.kind = "raise"
           THEN /\ qexc' = Some(text.exc)
                /\ qpc' = "except"
                /\ UNCHANGED ret
           ELSE /\ ret' = text
                /\ qpc' = "done"
                /\ UNCHANGED qexc
    /\ logs' = logs \o
          (IF tool[1].module /= "streamlit_tools" THEN <<>>
           ELSE IF tool[1].name = "get_account_balance"
           THEN balance_logs(balance_info(get_assets(data[1], <<>>)))
           ELSE position_logs(qsymbol, data[1]))
    /\ UNCHANGED <<tool, creds, connect, qsymbol, reply, client, data,
                   requests, orderVars, retryVars, gatewayVars, collabVars>>

\* except Exception as e: return the error text.
query_except ==
    /\ qpc = "except"
    /\ ret' = tool_except(tool[1].name, qexc[1])
    /\ logs' = logs \o (IF tool[1].module = "streamlit_tools"
                        THEN tool_except_logs(tool[1].name, qexc[1])
                        ELSE <<>>)
    /\ qpc' = "done"
    /\ UNCHANGED <<tool, creds, connect, qsymbol, reply, client, data, qexc,
                   requests, orderVars, retryVars, gatewayVars, collabVars>>

NextQuery ==
    \/ query_get_client
    \/ query_request
    \/ query_render
    \/ query_except

SpecQuery == InitQuery /\ [][NextQuery]_vars

----------------------------------------------------------------------------
\* Vocabulary of the claims about the query tools.

QDone == qpc = "done"
QueryName == tool[1].name
ClientMade == client /= None
ErrorText(e) ==
    (IF QueryName = "get_account_balance" THEN QueryText.ErrorBalance
     ELSE QueryText.ErrorPosition) \o e

\* The decimal strings of the inputs by the sign of their value.
PositiveAmounts == {SampleText.N10000, SampleText.Milli, SampleText.Tiny}
ZeroAmounts ==
    {SampleText.Zero, SampleText.ZeroPadded, SampleText.ZeroPointZero}
NegativeAmounts == {SampleText.MinusHalf}
NumericAmounts == PositiveAmounts \cup ZeroAmounts \cup NegativeAmounts

\* C18 as stated: each invocation of a query tool issues exactly one
\* request to the exchange, and ends by returning a string.
C18_ExactlyOneRequest ==
    QDone => (Len(requests) = 1 /\ ret.kind = "return")

\* C18: an invocation of a query tool issues at most one request to the
\* exchange: none when no client could be made (credentials missing in
\* the environment, or the client constructor raised), exactly one
\* otherwise, also when the request fails with a 502/503/504 error; every
\* exception is returned as the tool's error text followed by str(e),
\* never raised.
C18_AtMostOneRequestErrorsReturned ==
    /\ Len(requests) <= 1
    /\ QDone =>
        /\ ret.kind = "return"
        /\ Len(requests) = (IF ClientMade THEN 1 ELSE 0)
        /\ ClientMade <=>
              /\ connect[1].kind = "return"
              /\ \/ tool[1].module = "streamlit_tools"
                 \/ /\ creds[1].api_key \notin {None, Some("")}
                    /\ creds[1].api_secret \notin {None, Some("")}
        /\ (ClientMade /\ reply[1].kind = "raise") =>
              ret.value = ErrorText(exc_str(reply[1].exc))
        /\ (tool[1].module = "binance_tools"
            /\ (creds[1].api_key \in {None, Some("")}
                \/ creds[1].api_secret \in {None, Some("")})) =>
              ret.value = ErrorText(Msg.EnvRequired)
        /\ qexc /= None => ret.value = ErrorText(exc_str(qexc[1]))

\* A request that failed with a 503 error was issued once, and the tool
\* returned the error text.
C18_Witness ==
    /\ QDone
    /\ ClientMade
    /\ reply[1].kind = "raise"
    /\ Contains(reply[1].exc.message, Msg.Sub503)
    /\ Len(requests) = 1
    /\ ret = Returns(ErrorText(exc_str(reply[1].exc)))

\* C19: get_position_info returns "No position information found for
\* <symbol>" when the exchange returns an empty list, "No open position for
\* <symbol>" when the first record's positionAmt is zero, and the position
\* details exactly when the first record's positionAmt is non-zero; the
\* three texts are pairwise different.
C19_PositionOutcomes ==
    /\ (QDone /\ QueryName = "get_position_info" /\ data /= None) =>
          LET positions == data[1]
              NoInfo == QueryText.NoPositionInfo \o Spelling(qsymbol)
              NoOpen == QueryText.NoOpenPosition \o Spelling(qsymbol)
          IN  /\ positions = <<>> => ret = Returns(NoInfo)
              /\ (positions /= <<>>
                  /\ positions[1].positionAmt \in ZeroAmounts) =>
                     ret = Returns(NoOpen)
              /\ (positions /= <<>>
                  /\ positions[1].positionAmt
                        \in PositiveAmounts \cup NegativeAmounts) =>
                     ret = Returns(position_details(positions[1]))
              /\ (ret.kind = "return"
                  /\ Contains(ret.value, QueryText.PositionHeader)) =>
                     /\ positions /= <<>>
                     /\ positions[1].positionAmt \notin ZeroAmounts
              /\ requests =
                    <<[endpoint |-> "futures_position_information",
                       symbol |-> Some(upper(qsymbol))]>>
    /\ \A s1 \in Args.symbol, s2 \in Args.symbol, pos \in PositionRecords :
          /\ QueryText.NoPositionInfo \o Spelling(s1)
                /= QueryText.NoOpenPosition \o Spelling(s2)
          /\ position_details(pos) /= QueryText.NoPositionInfo \o Spelling(s1)
          /\ position_details(pos) /= QueryText.NoOpenPosition \o Spelling(s2)

\* The first record has a zero amount written "0.000", the second an open
\* amount: the tool answered "No open position for btcusdt".
C19_Witness ==
    /\ QDone
    /\ QueryName = "get_position_info"
    /\ data /= None
    /\ Len(data[1]) = 2
    /\ data[1][1].positionAmt = SampleText.ZeroPadded
    /\ data[1][2].positionAmt = SampleText.Milli
    /\ qsymbol = "btcusdt"
    /\ ret = Returns(QueryText.NoOpenPosition \o Spelling("btcusdt"))

\* C20: when the balances of the account record are decimal numbers,
\* get_account_balance returns the header followed by the entries (asset,
\* wallet balance, available balance) of exactly the assets whose wallet
\* balance is > 0, in the order received, separated by blank lines; no
\* asset with a wallet balance <= 0 is reported; with no such asset (or
\* no "assets" key) it returns "No balance found in account.".
C20_BalanceReportsPositiveAssets ==
    (QDone /\ QueryName = "get_account_balance" /\ data /= None) =>
        LET assets == IF "assets" \in DOMAIN data[1] THEN data[1].assets
                      ELSE <<>>
            shown == SelectSeq(assets,
                         LAMBDA b : b.walletBalance \in PositiveAmounts)
            entries == [i \in 1..Len(shown) |->
                           QueryText.Asset \o shown[i].asset
                           \o QueryText.WalletBalance \o shown[i].walletBalance
                           \o QueryText.AvailableBalance
                           \o shown[i].availableBalance]
        IN  (\A i \in 1..Len(assets) :
                 assets[i].walletBalance \in NumericAmounts) =>
              /\ ret.kind = "return"
              /\ shown = <<>> => ret.value = QueryText.NoBalance
              /\ shown /= <<>> =>
                    ret.value = QueryText.BalanceHeader
                                \o join(QueryText.BlankLine, entries)
              /\ \A i \in 1..Len(assets) :
                    assets[i].walletBalance \notin PositiveAmounts =>
                       ~Contains(ret.value,
                                 QueryText.Asset \o assets[i].asset
                                 \o QueryText.WalletBalance
                                 \o assets[i].walletBalance
                                 \o QueryText.AvailableBalance)

\* An account with a zero BTC balance and a positive USDT balance: only
\* USDT is reported.
C20_Witness ==
    /\ QDone
    /\ QueryName = "get_account_balance"
    /\ data /= None
    /\ "assets" \in DOMAIN data[1]
    /\ Len(data[1].assets) = 2
    /\ data[1].assets[1].walletBalance = SampleText.ZeroPointZero
    /\ data[1].assets[1].asset = SampleText.BTC
    /\ data[1].assets[2].walletBalance = SampleText.N10000
    /\ data[1].assets[2].asset = SampleText.USDT
    /\ ret = Returns(QueryText.BalanceHeader \o QueryText.Asset
                     \o SampleText.USDT
                     \o QueryText.WalletBalance \o SampleText.N10000
                     \o QueryText.AvailableBalance \o SampleText.N9500)

----------------------------------------------------------------------------
\* C26: one place_order call invokes the order-creation endpoint at most
\* once, whatever the exchange does (success, transient or permanent
\* exchange error, other exception): the parameters are sent at most once,
\* and a call that has ended with an exchange error has sent them exactly
\* once and was not repeated.
C26_EndpointInvokedAtMostOnce ==
    /\ calls <= 1
    /\ Len(sent) = calls
    /\ (Done /\ Valid) => (calls = 1 /\ attempt = 0 /\ sleeps = <<>>)
    /\ (Done /\ ~Valid) => calls = 0

\* The exchange answered the only invocation with a transient error, and
\* the call ended with a Failure.
C26_Witness ==
    /\ Done
    /\ calls = 1
    /\ IsTransient(script[1])
    /\ result.kind = "return"
    /\ ~result.value.success

\* C30: every place_order call ends, returning a Result or raising, after
\* at most 3 executions of its body and at most 2 backoff sleeps.
C30_PlaceOrderTerminates ==
    /\ <>(Done /\ result.kind \in {"return", "raise"})
    /\ [](validations <= 3 /\ Len(sleeps) <= 2 /\ attempt <= 2)
    /\ [][Done => UNCHANGED vars]_vars

\* A call that used all 3 executions of the body and both sleeps, and ended
\* by raising.
C30_Witness ==
    /\ Done
    /\ validations = 3
    /\ Len(sleeps) = 2
    /\ result.kind = "raise"

----------------------------------------------------------------------------
\* retry_on_error(max_retries, delay) around any operation func: the
\* decorator of binance_client.py, lines 17-64, with its arguments as
\* given by the decoration, and func answering as the script says.

MaxRetries == 4
MaxDelay == 2

\* The decorations: place_order's is (3, 2); the default delay is 1.
Decorations == [max_retries : 0..MaxRetries, delay : 1..MaxDelay]

\* wrapper, lines 35 and 49, with a wait that does not grow.
retry_wait_constant(dec, n) == dec.delay

\* wrapper, lines 35 and 49: wait_time = delay * (attempt + 1)
retry_wait_time(dec, n) == dec.delay * (n + 1)

\* wrapper, lines 25-56: does the handler sleep and continue, or raise?
retry_continues(dec, e, n) ==
    IF e.type = "BinanceAPIException"
    THEN is_gateway_error(e.message) /\ n < dec.max_retries - 1
    ELSE n < dec.max_retries - 1

\* func is about to be called through the wrapper.
InitRetry ==
    /\ QueryIdle
    /\ CollabIdle
    /\ GatewaysIdle
    /\ deco \in Decorations
    /\ pc = "call"
    /\ order = None
    /\ script \in [1..deco.max_retries -> ExchangeOutcomes]
    /\ attempt = 0
    /\ last_exception = None
    /\ exc = None
    /\ result = [kind |-> "none"]
    /\ validations = 0
    /\ calls = 0
    /\ sent = <<>>
    /\ sleeps = <<>>
    /\ validated = <<>>
    /\ caller = "func"
    /\ args = None
    /\ logs = <<>>

\* wrapper, lines 20-21.
retry_enter ==
    /\ pc = "call"
    /\ pc' = "loop"
    /\ last_exception' = None
    /\ UNCHANGED <<order, script, attempt, exc, result, validations, calls,
                   sent, sleeps, validated, callerVars, queryVars, retryVars,
                   gatewayVars, collabVars, logs>>

\* wrapper, line 22 (loop head) and lines 57-60 (after the loop).
retry_for ==
    /\ pc = "loop"
    /\ IF attempt < deco.max_retries
       THEN /\ pc' = "func"
            /\ UNCHANGED <<result, logs>>
       ELSE /\ pc' = "done"
            /\ logs' = logs \o exhausted_logs(last_exception)
            /\ result' = IF last_exception /= None
                         THEN Raises(last_exception[1])
                         ELSE Raises(OtherException("Exception",
                                                    Msg.UnknownError))
    /\ UNCHANGED <<order, script, attempt, last_exception, exc, validations,
                   calls, sent, sleeps, validated, callerVars, queryVars,
                   retryVars, gatewayVars, collabVars>>

\* wrapper, line 24: return func(*args, **kwargs)
retry_func ==
    /\ pc = "func"
    /\ calls' = calls + 1
    /\ LET out == script[attempt + 1]
       IN  IF out.kind = "return"
           THEN /\ pc' = "done"
                /\ result' = out
                /\ UNCHANGED exc
           ELSE /\ pc' = "handler"
                /\ exc' = Some(out.exc)
                /\ UNCHANGED result
    /\ UNCHANGED <<order, script, attempt, last_exception, validations, sent,
                   sleeps, validated, callerVars, queryVars, retryVars,
                   gatewayVars, collabVars, logs>>

\* Handlers that leave the loop after the last attempt instead of raising
\* in the handler: lines 57-60 then raise last_exception or the generic
\* error.
retry_except_falls_through ==
    /\ pc = "handler"
    /\ LET e == exc[1]
       IN  /\ last_exception' = IF e.type = "BinanceAPIException"
                                THEN Some(e) ELSE last_exception
           /\ logs' = logs \o wrapper_logs(deco.max_retries,
                                            retry_wait_time(deco, attempt),
                                            e, attempt)
           /\ IF retry_continues(deco, e, attempt)
              THEN /\ sleeps' = Append(sleeps, retry_wait_time(deco, attempt))
                   /\ pc' = "sleep"
                   /\ UNCHANGED <<result, exc>>
              ELSE IF attempt >= deco.max_retries - 1
              THEN /\ pc' = "sleep"
                   /\ UNCHANGED <<sleeps, result, exc>>
              ELSE /\ pc' = "done"
                   /\ result' = Raises(e)
                   /\ exc' = None
                   /\ UNCHANGED sleeps
    /\ UNCHANGED <<order, script, attempt, validations, calls, sent,
                   validated, callerVars, queryVars, retryVars, gatewayVars,
                   collabVars>>

\* wrapper, lines 25-56: the two except clauses, up to the call of
\* time.sleep.
retry_except ==
    /\ pc = "handler"
    /\ LET e == exc[1]
       IN  /\ last_exception' = IF e.type = "BinanceAPIException"
                                THEN Some(e) ELSE last_exception
           /\ logs' = logs \o wrapper_logs(deco.max_retries,
                                            retry_wait_time(deco, attempt),
                                            e, attempt)
           /\ IF retry_continues(deco, e, attempt)
              THEN /\ sleeps' = Append(sleeps, retry_wait_time(deco, attempt))
                   /\ pc' = "sleep"
                   /\ UNCHANGED <<result, exc>>
              ELSE /\ pc' = "done"
                   /\ result' = Raises(e)
                   /\ exc' = None
                   /\ UNCHANGED sleeps
    /\ UNCHANGED <<order, script, attempt, validations, calls, sent,
                   validated, callerVars, queryVars, retryVars, gatewayVars,
                   collabVars>>

\* wrapper, lines 41 and 55, then line 22: time.sleep has returned, the
\* handler ends with continue and the loop takes the next attempt.
retry_continue ==
    /\ pc = "sleep"
    /\ attempt' = attempt + 1
    /\ exc' = None
    /\ pc' = "loop"
    /\ UNCHANGED <<order, script, last_exception, result, validations,
                   calls, sent, sleeps, validated, callerVars, queryVars,
                   retryVars, gatewayVars, collabVars, logs>>

NextRetry ==
    \/ retry_enter
    \/ retry_for
    \/ retry_func
    \/ retry_except
    \/ retry_continue

SpecRetry == InitRetry /\ [][NextRetry]_vars

----------------------------------------------------------------------------
\* Vocabulary of the claims about the wrapper.

\* The message carries "502", "503", "504" or "Bad Gateway".
HasGatewaySignature(msg) ==
    \E sub \in {Msg.Sub502, Msg.Sub503, Msg.Sub504, Msg.SubBadGateway} : Contains(msg, sub)
\* An outcome of func that the wrapper treats as retryable.
Retryable(out) ==
    /\ out.kind = "raise"
    /\ out.exc.type = "BinanceAPIException"
          => HasGatewaySignature(out.exc.message)
Unretryable(out) ==
    /\ out.kind = "raise"
    /\ out.exc.type = "BinanceAPIException"
    /\ ~HasGatewaySignature(out.exc.message)
UnknownError == Raises(OtherException("Exception", Msg.UnknownError))

\* C27: with max_retries = N >= 1, when every attempt fails with a
\* retryable condition the operation is invoked exactly N times and the
\* exception of the N-th attempt is raised; "Unknown error occurred" is
\* raised only when N = 0, and then the operation is never invoked.
C27_LastExceptionRaisedAfterNAttempts ==
    /\ calls <= deco.max_retries
    /\ (Done /\ deco.max_retries >= 1
        /\ \A i \in 1..deco.max_retries : Retryable(script[i])) =>
          /\ calls = deco.max_retries
          /\ result = Raises(script[deco.max_retries].exc)
    /\ (Done /\ result = UnknownError) => deco.max_retries = 0
    /\ (Done /\ deco.max_retries = 0) => (calls = 0 /\ result = UnknownError)

\* Three retryable failures, the last different from the first two: the
\* third one was raised.
C27_Witness ==
    /\ Done
    /\ deco.max_retries = 3
    /\ \A i \in 1..3 : Retryable(script[i])
    /\ script[1].exc.type = "BinanceAPIException"
    /\ script[3].exc.type = "ConnectionError"
    /\ calls = 3
    /\ result = Raises(script[3].exc)

\* C28: an exchange exception is retried only if its message contains
\* "502", "503", "504" or "Bad Gateway", and then it is retried whenever an
\* attempt is left; an exchange exception without them is raised at once,
\* with no sleep and no further attempt; any other exception is retried
\* whenever an attempt is left.
C28_RetryIffGatewaySignature ==
    /\ [][pc = "handler" =>
            LET e == exc[1]
                left == attempt < deco.max_retries - 1
            IN  IF e.type = "BinanceAPIException"
                   /\ ~HasGatewaySignature(e.message)
                THEN /\ pc' = "done"
                     /\ result' = Raises(e)
                     /\ UNCHANGED <<sleeps, calls, attempt>>
                ELSE IF left
                THEN /\ pc' = "sleep"
                     /\ Len(sleeps') = Len(sleeps) + 1
                     /\ UNCHANGED <<result, calls, attempt>>
                ELSE /\ pc' = "done"
                     /\ result' = Raises(e)
                     /\ UNCHANGED <<sleeps, calls, attempt>>]_vars
    /\ [][pc = "sleep" =>
            /\ pc' = "loop"
            /\ attempt' = attempt + 1
            /\ UNCHANGED <<sleeps, result, calls>>]_vars
    /\ [](\A i \in 1..deco.max_retries :
             (Done /\ Unretryable(script[i])
              /\ \A j \in 1..(i - 1) : Retryable(script[j])) =>
                 /\ calls = i
                 /\ Len(sleeps) = i - 1
                 /\ result = Raises(script[i].exc))

\* A "Bad Gateway" page was retried, then "Insufficient balance" ended the
\* call on the second attempt of four.
C28_Witness ==
    /\ Done
    /\ deco.max_retries = 4
    /\ script[1] = Raises(BinanceAPIException(0, Msg.BadGateway))
    /\ script[2] = Raises(BinanceAPIException(-2019, Msg.Insufficient))
    /\ calls = 2
    /\ Len(sleeps) = 1
    /\ result = script[2]

\* C29: the k-th sleep of a call lasts delay * k (2 then 4 for
\* place_order's decoration); there is one sleep per retried failure, so a
\* call that ended after n invocations slept n - 1 times: no sleep follows
\* the final attempt, a success or a non-retryable error.
C29_LinearBackoff ==
    /\ \A k \in 1..Len(sleeps) : sleeps[k] = deco.delay * k
    /\ Len(sleeps) = attempt + (IF pc = "sleep" THEN 1 ELSE 0)
    /\ Done => Len(sleeps) = (IF calls = 0 THEN 0 ELSE calls - 1)
    /\ (deco.max_retries = 3 /\ deco.delay = 2) =>
          sleeps \in {<<>>, <<2>>, <<2, 4>>}

\* Under place_order's decoration a call failed three times and slept 2
\* and 4.
C29_Witness ==
    /\ Done
    /\ deco = [max_retries |-> 3, delay |-> 2]
    /\ calls = 3
    /\ sleeps = <<2, 4>>
    /\ result.kind = "raise"

----------------------------------------------------------------------------
\* The collaborators end to end: main.py's CLI() and CLI.run (src/cli.py),
\* the order tools of tools/binance_tools.py and tools/streamlit_tools.py,
\* and a direct construction of BinanceFuturesClient followed by
\* place_order. Each creates its client, builds the request, calls
\* place_order and reports.

\* The literals of place_market_order and place_limit_order
\* (tools/binance_tools.py, lines 49-67 and 98-117).
ToolText ==
    \* "<U+2705> MARKET order placed successfully!\n"
    [ MarketPlaced |->
          <<"<U+2705>"," ","M","A","R","K","E","T"," ","o","r","d","e","r",
            " ","p","l","a","c","e","d"," ","s","u","c","c","e","s","s","f",
            "u","l","l","y","!","\n">>,
    \* "<U+2705> LIMIT order placed successfully!\n"
      LimitPlaced |->
          <<"<U+2705>"," ","L","I","M","I","T"," ","o","r","d","e","r"," ",
            "p","l","a","c","e","d"," ","s","u","c","c","e","s","s","f","u",
            "l","l","y","!","\n">>,
    \* "Order ID: "
      OrderID |->
          <<"O","r","d","e","r"," ","I","D",":"," ">>,
    \* "\nSymbol: "
      Symbol |->
          <<"\n","S","y","m","b","o","l",":"," ">>,
    \* "\nSide: "
      Side |->
          <<"\n","S","i","d","e",":"," ">>,
    \* "\nStatus: "
      Status |->
          <<"\n","S","t","a","t","u","s",":"," ">>,
    \* "\nPrice: "
      Price |->
          <<"\n","P","r","i","c","e",":"," ">>,
    \* "\nQuantity: "
      Quantity |->
          <<"\n","Q","u","a","n","t","i","t","y",":"," ">>,
    \* "\nExecuted Qty: "
      ExecutedQty |->
          <<"\n","E","x","e","c","u","t","e","d"," ","Q","t","y",":"," ">>,
    \* "\nAvg Price: "
      AvgPrice |->
          <<"\n","A","v","g"," ","P","r","i","c","e",":"," ">>,
    \* "<U+274C> Order failed!\n"
      OrderFailed |->
          <<"<U+274C>"," ","O","r","d","e","r"," ","f","a","i","l","e","d",
            "!","\n">>,
    \* "Error Code: "
      ErrorCode |->
          <<"E","r","r","o","r"," ","C","o","d","e",":"," ">>,
    \* "\nError Message: "
      ErrorMessage |->
          <<"\n","E","r","r","o","r"," ","M","e","s","s","a","g","e",":",
            " ">>,
    \* "<U+274C> Error placing order: "
      ErrorPlacing |->
          <<"<U+274C>"," ","E","r","r","o","r"," ","p","l","a","c","i","n",
            "g"," ","o","r","d","e","r",":"," ">> ]


\* The literals of CLI._print_order_summary, CLI._print_order_response and
\* CLI.run (src/cli.py, lines 31-92).
CliText ==
    \* "\n=== Order Request Summary ==="
    [ SummaryHeader |->
          <<"\n","=","=","="," ","O","r","d","e","r"," ","R","e","q","u",
            "e","s","t"," ","S","u","m","m","a","r","y"," ","=","=","=">>,
    \* "Symbol:    "
      SummarySymbol |->
          <<"S","y","m","b","o","l",":"," "," "," "," ">>,
    \* "Side:      "
      SummarySide |->
          <<"S","i","d","e",":"," "," "," "," "," "," ">>,
    \* "Type:      "
      SummaryType |->
          <<"T","y","p","e",":"," "," "," "," "," "," ">>,
    \* "Quantity:  "
      SummaryQuantity |->
          <<"Q","u","a","n","t","i","t","y",":"," "," ">>,
    \* "Price:     "
      SummaryPrice |->
          <<"P","r","i","c","e",":"," "," "," "," "," ">>,
    \* "============================\n"
      SummaryFooter |->
          <<"=","=","=","=","=","=","=","=","=","=","=","=","=","=","=","=",
            "=","=","=","=","=","=","=","=","=","=","=","=","\n">>,
    \* "=== Order Response ==="
      ResponseHeader |->
          <<"=","=","="," ","O","r","d","e","r"," ","R","e","s","p","o","n",
            "s","e"," ","=","=","=">>,
    \* "Order ID:      "
      OrderID |->
          <<"O","r","d","e","r"," ","I","D",":"," "," "," "," "," "," ">>,
    \* "Status:        "
      Status |->
          <<"S","t","a","t","u","s",":"," "," "," "," "," "," "," "," ">>,
    \* "Symbol:        "
      Symbol |->
          <<"S","y","m","b","o","l",":"," "," "," "," "," "," "," "," ">>,
    \* "Side:          "
      Side |->
          <<"S","i","d","e",":"," "," "," "," "," "," "," "," "," "," ">>,
    \* "Type:          "
      Type |->
          <<"T","y","p","e",":"," "," "," "," "," "," "," "," "," "," ">>,
    \* "Quantity:      "
      Quantity |->
          <<"Q","u","a","n","t","i","t","y",":"," "," "," "," "," "," ">>,
    \* "Executed Qty:  "
      ExecutedQty |->
          <<"E","x","e","c","u","t","e","d"," ","Q","t","y",":"," "," ">>,
    \* "Avg Price:     "
      AvgPrice |->
          <<"A","v","g"," ","P","r","i","c","e",":"," "," "," "," "," ">>,
    \* "======================"
      ResponseFooter |->
          <<"=","=","=","=","=","=","=","=","=","=","=","=","=","=","=","=",
            "=","=","=","=","=","=">>,
    \* "\n<U+2705> Order placed successfully!\n"
      Placed |->
          <<"\n","<U+2705>"," ","O","r","d","e","r"," ","p","l","a","c","e",
            "d"," ","s","u","c","c","e","s","s","f","u","l","l","y","!",
            "\n">>,
    \* "=== Order Failed ==="
      FailedHeader |->
          <<"=","=","="," ","O","r","d","e","r"," ","F","a","i","l","e","d",
            " ","=","=","=">>,
    \* "Error Code:    "
      ErrorCode |->
          <<"E","r","r","o","r"," ","C","o","d","e",":"," "," "," "," ">>,
    \* "Error Message: "
      ErrorMessage |->
          <<"E","r","r","o","r"," ","M","e","s","s","a","g","e",":"," ">>,
    \* "===================="
      FailedFooter |->
          <<"=","=","=","=","=","=","=","=","=","=","=","=","=","=","=","=",
            "=","=","=","=">>,
    \* "\n<U+274C> Failed to place order!\n"
      Failed |->
          <<"\n","<U+274C>"," ","F","a","i","l","e","d"," ","t","o"," ","p",
            "l","a","c","e"," ","o","r","d","e","r","!","\n">>,
    \* "\n<U+274C> Validation Error: "
      ValidationError |->
          <<"\n","<U+274C>"," ","V","a","l","i","d","a","t","i","o","n"," ",
            "E","r","r","o","r",":"," ">>,
    \* "\n<U+274C> Unexpected Error: "
      UnexpectedError |->
          <<"\n","<U+274C>"," ","U","n","e","x","p","e","c","t","e","d"," ",
            "E","r","r","o","r",":"," ">> ]


\* cli.py line 19 / binance_tools.py line 15, testing the key only.
credentials_missing_key_only(c) == falsy(c.api_key)

\* cli.py line 19 / binance_tools.py line 15:
\* not api_key or not api_secret
credentials_missing(c) == falsy(c.api_key) \/ falsy(c.api_secret)

\* A collaborator that asks for the production network.
client_flag_production(module, c) == FALSE

\* The testnet argument each collaborator passes to BinanceFuturesClient:
\* the literal True (cli.py line 28, binance_tools.py line 20,
\* streamlit_tools.py line 12); a direct construction passes its own.
client_flag(module, c) ==
    IF module = "binance_client" THEN c.testnet ELSE TRUE

\* Does the collaborator reach the constructor?
create_client_constructs(module, c) ==
    ~(module \in {"cli", "binance_tools"} /\ credentials_missing(c))

\* CLI._create_client, get_client of the two tool modules, and the direct
\* construction.
create_client(module, c, conn) ==
    IF ~create_client_constructs(module, c)
    THEN Raises(ValueError(Msg.EnvRequired))
    ELSE BinanceFuturesClient(c.api_key, c.api_secret,
                              client_flag(module, c), conn)

\* CLI._print_order_summary: one entry per print call.
print_order_summary(o) ==
    <<CliText.SummaryHeader,
      CliText.SummarySymbol \o Spelling(o.symbol),
      CliText.SummarySide \o Spelling(o.side),
      CliText.SummaryType \o Spelling(o.order_type),
      CliText.SummaryQuantity \o float_str(o.quantity)>>
    \o (IF o.order_type = "LIMIT"
        THEN <<CliText.SummaryPrice \o optional_float_str(o.price)>>
        ELSE <<>>)
    \o <<CliText.SummaryFooter>>

\* CLI._print_order_response: one entry per print call.
print_order_response(response) ==
    IF response.success THEN
        LET d == response.data[1]
        IN  <<CliText.ResponseHeader,
              CliText.OrderID \o get_or_na(d, "orderId"),
              CliText.Status \o get_or_na(d, "status"),
              CliText.Symbol \o get_or_na(d, "symbol"),
              CliText.Side \o get_or_na(d, "side"),
              CliText.Type \o get_or_na(d, "type"),
              CliText.Quantity \o get_or_na(d, "origQty"),
              CliText.ExecutedQty \o get_or_na(d, "executedQty"),
              CliText.AvgPrice \o get_or_na(d, "avgPrice"),
              CliText.ResponseFooter,
              CliText.Placed>>
    ELSE
        LET error == response.error[1]
        IN  <<CliText.FailedHeader,
              CliText.ErrorCode \o int_str(error.code),
              CliText.ErrorMessage \o error.message,
              CliText.FailedFooter,
              CliText.Failed>>

\* CLI.run with the  except Exception  clause left out of the report: every
\* exception is printed as a validation error.
cli_except_validation_only(e) ==
    <<CliText.ValidationError \o exc_str(e) \o Txt.Newline>>

\* CLI.run, lines 87-92: the two except clauses.
cli_except(e) ==
    IF e.type = "ValueError"
    THEN <<CliText.ValidationError \o exc_str(e) \o Txt.Newline>>
    ELSE <<CliText.UnexpectedError \o exc_str(e) \o Txt.Newline>>

\* The string an order tool returns for the response of place_order.
order_tool_text(name, response) ==
    IF response.success THEN
        LET d == response.data[1]
        IN  (IF name = "place_market_order" THEN ToolText.MarketPlaced
             ELSE ToolText.LimitPlaced)
            \o ToolText.OrderID \o get_or_na(d, "orderId")
            \o ToolText.Symbol \o get_or_na(d, "symbol")
            \o ToolText.Side \o get_or_na(d, "side")
            \o ToolText.Status \o get_or_na(d, "status")
            \o (IF name = "place_limit_order"
                THEN ToolText.Price \o get_or_na(d, "price") ELSE <<>>)
            \o ToolText.Quantity \o get_or_na(d, "origQty")
            \o ToolText.ExecutedQty \o get_or_na(d, "executedQty")
            \o ToolText.AvgPrice \o get_or_na(d, "avgPrice")
    ELSE
        LET error == response.error[1]
        IN  ToolText.OrderFailed
            \o ToolText.ErrorCode \o int_str(error.code)
            \o ToolText.ErrorMessage \o error.message

\* An order tool without its except clause.
order_tool_except_reraises(e) == Raises(e)

\* The except clause of an order tool.
order_tool_except(e) == Returns(ToolText.ErrorPlacing \o exc_str(e))


\* CLI._create_client (lines 19-28), get_client of the two tool modules
\* and the direct construction: what is logged up to and including the
\* constructor's own record. A tool of streamlit_tools.py has logged its
\* call before.
create_client_logs(t, a, c) ==
    (IF t.module = "streamlit_tools" THEN tool_invoked(t.name, a, c)
     ELSE <<>>)
    \o (IF t.module /= "cli" THEN <<>>
        ELSE IF credentials_missing(c)
        THEN <<Log("ERROR", Msg.EnvRequired)>>
        ELSE <<Log("INFO", LogText.Initialized)>>)
    \o (IF create_client_constructs(t.module, c)
        THEN init_logs(client_flag(t.module, c)) ELSE <<>>)

\* CLI.run, line 70: the arguments as given.
run_logs(a) ==
    <<Log("INFO", LogText.Running \o Spelling(a.side) \o <<" ">>
                  \o float_str(a.quantity) \o <<" ">> \o Spelling(a.symbol)
                  \o <<" ", "(">> \o Spelling(a.order_type) \o <<")">>)>>

\* CLI.run, lines 88 and 91.
cli_except_logs(e) ==
    <<Log("ERROR", (IF e.type = "ValueError" THEN LogText.ValidationError
                    ELSE LogText.UnexpectedError) \o exc_str(e))>>

\* An order tool of streamlit_tools.py, lines 47-49 / 110-112 and 62-64 /
\* 126-128.
order_tool_logs(name, response) ==
    IF response.success THEN
        <<Log("INFO", (IF name = "place_market_order"
                       THEN LogText.MarketPlaced
                       ELSE LogText.LimitPlaced)
                      \o get_or_none(response.data[1], "orderId"))>>
    ELSE
        LET error == response.error[1]
        IN  <<Log("ERROR", (IF name = "place_market_order"
                            THEN LogText.MarketFailed
                            ELSE LogText.LimitFailed)
                           \o error.message \o LogText.Code
                           \o int_str(error.code) \o <<")">>)>>

\* The except clause of an order tool of streamlit_tools.py, lines 71 and
\* 136.
order_tool_except_logs(name, e) ==
    <<Log("ERROR", (IF name = "place_market_order"
                    THEN LogText.ErrorMarket
                    ELSE LogText.ErrorLimit) \o exc_str(e))>>

\* What place_order of a stand-in for the client does: CLI.run calls
\* self.client.place_order, whatever object the attribute holds.
StandIns ==
    { Raises(OtherException("RuntimeError", Msg.TimedOut)),
      Raises(BinanceAPIException(-2019, Msg.Insufficient)) }

\* Inputs of the collaborators.
Collaborators ==
    { [module |-> "cli", name |-> "CLI.run"],
      [module |-> "binance_client", name |-> "OrderRequest"] }
    \cup [module : {"binance_tools", "streamlit_tools"},
          name : {"place_market_order", "place_limit_order"}]

CollabInputs ==
    [ symbol |-> {"", "btcusdt"},
      side |-> {"buy", "hold"},
      order_type |-> {"market", "limit", "stop"},
      quantity |-> {Float(0), Float(1), OddFloats.Milli},
      price |-> {Some(Float(0)), Some(Float(1))} ]
CollabArgs(name) ==
    CASE name = "OrderRequest" ->
             [symbol : {"", "BTCUSDT"}, side : {"BUY", "hold"},
              order_type : {"MARKET", "LIMIT", "stop"},
              quantity : CollabInputs.quantity,
              price : {None} \cup CollabInputs.price]
      [] name = "CLI.run" ->
             [symbol : CollabInputs.symbol, side : CollabInputs.side,
              order_type : CollabInputs.order_type, quantity : CollabInputs.quantity,
              price : {None} \cup CollabInputs.price]
      [] name = "place_market_order" ->
             [symbol : CollabInputs.symbol, side : CollabInputs.side,
              quantity : CollabInputs.quantity]
      [] name = "place_limit_order" ->
             [symbol : CollabInputs.symbol, side : CollabInputs.side,
              quantity : CollabInputs.quantity, price : CollabInputs.price]

\* The environment (cli, binance_tools), the credential arguments
\* (streamlit_tools), the constructor's arguments (direct construction).
CollabCredentials(module) ==
    CASE module \in {"cli", "binance_tools"} ->
             { [api_key |-> Some("key"), api_secret |-> Some("secret")],
               [api_key |-> Some("key"), api_secret |-> None],
               [api_key |-> Some(""), api_secret |-> Some("secret")] }
      [] module = "streamlit_tools" ->
             { [api_key |-> Some("key"), api_secret |-> Some("secret")],
               [api_key |-> Some("key"), api_secret |-> Some("")] }
      [] module = "binance_client" ->
             [api_key : {Some("key")}, api_secret : {Some("secret")},
              testnet : BOOLEAN]

\* A collaborator has been invoked; it has no client yet. The client of
\* the CLI is the gateway, or is replaced by a stand-in once constructed.
InitCollab ==
    /\ PlaceOrderDecorated
    /\ GatewaysIdle
    /\ printed = <<>>
    /\ connections = <<>>
    /\ logs = <<>>
    /\ pc = "create"
    /\ tool \in {Some(t) : t \in Collaborators}
    /\ stand_in \in (IF tool[1].module = "cli"
                     THEN {None} \cup {Some(d) : d \in StandIns}
                     ELSE {None})
    /\ caller = tool[1].name
    /\ args \in CollabArgs(caller)
    /\ creds \in {Some(c) : c \in CollabCredentials(tool[1].module)}
    /\ connect \in {Some(c) : c \in Connects}
    /\ order = None
    /\ script \in SteadyScripts
    /\ attempt = 0
    /\ last_exception = None
    /\ exc = None
    /\ result = [kind |-> "none"]
    /\ validations = 0
    /\ calls = 0
    /\ sent = <<>>
    /\ sleeps = <<>>
    /\ validated = <<>>
    /\ qpc = "idle"
    /\ qsymbol = ""
    /\ reply = None
    /\ client = None
    /\ data = None
    /\ qexc = None
    /\ requests = <<>>
    /\ ret = [kind |-> "none"]

\* CLI() / client = get_client(...) / BinanceFuturesClient(...): an
\* exception of CLI() or of the direct construction reaches the caller,
\* one of get_client reaches the tool's except clause.
collab_create_client ==
    /\ pc = "create"
    /\ LET module == tool[1].module
           made == create_client(module, creds[1], connect[1])
       IN  /\ connections' =
                 IF create_client_constructs(module, creds[1])
                 THEN Append(connections,
                             Client(creds[1].api_key, creds[1].api_secret,
                                    client_flag(module, creds[1])))
                 ELSE connections
           /\ IF made.kind = "return"
              THEN /\ client' = Some(made.value)
                   /\ pc' = "build"
                   /\ UNCHANGED <<qexc, ret>>
              ELSE IF module \in {"binance_tools", "streamlit_tools"}
              THEN /\ qexc' = Some(made.exc)
                   /\ pc' = "tool_except"
                   /\ UNCHANGED <<client, ret>>
              ELSE /\ ret' = made
                   /\ pc' = "end"
                   /\ UNCHANGED <<client, qexc>>
    /\ logs' = logs \o create_client_logs(tool[1], args, creds[1])
    /\ UNCHANGED <<order, script, attempt, last_exception, exc, result,
                   validations, calls, sent, sleeps, validated, callerVars,
                   qpc, tool, creds, connect, qsymbol, reply, data, requests,
                   retryVars, gatewayVars, printed, stand_in>>

\* order = OrderRequest(...); CLI.run logs its arguments before (cli.py,
\* line 70) and prints the summary after (line 81). The call of
\* place_order that follows goes to the gateway or to the stand-in.
caller_build_order ==
    /\ pc = "build"
    /\ order' = caller_request(caller, args)
    /\ logs' = IF caller = "CLI.run" THEN logs \o run_logs(args) ELSE logs
    /\ printed' = IF caller = "CLI.run"
                  THEN printed \o print_order_summary(order')
                  ELSE printed
    /\ pc' = IF stand_in /= None THEN "stand_in" ELSE "idle"
    /\ UNCHANGED <<script, attempt, last_exception, exc, result, validations,
                   calls, sent, sleeps, validated, callerVars, queryVars,
                   retryVars, gatewayVars, connections, stand_in>>

\* self.client.place_order(order) on a stand-in (cli.py, line 83): the
\* call ends as the stand-in says.
cli_place_order_stand_in ==
    /\ pc = "stand_in"
    /\ result' = stand_in[1]
    /\ pc' = "done"
    /\ UNCHANGED <<order, script, attempt, last_exception, exc, validations,
                   calls, sent, sleeps, validated, callerVars, queryVars,
                   retryVars, gatewayVars, collabVars, logs>>

\* place_order has returned or raised: CLI.run prints the response or the
\* error and returns None; an order tool returns its text, or hands the
\* exception to its except clause; a direct caller gets place_order's
\* outcome.
collab_report ==
    /\ pc = "done"
    /\ LET module == IF caller = "CLI.run" THEN "cli"
                     ELSE IF caller = "OrderRequest" THEN "binance_client"
                     ELSE "tools"
           logged == tool /= None /\ tool[1].module = "streamlit_tools"
       IN  IF module = "cli"
           THEN /\ printed' = printed \o
                       (IF result.kind = "return"
                        THEN print_order_response(result.value)
                        ELSE cli_except(result.exc))
                /\ logs' = IF result.kind = "return" THEN logs
                           ELSE logs \o cli_except_logs(result.exc)
                /\ ret' = Returns(None)
                /\ pc' = "end"
                /\ UNCHANGED qexc
           ELSE IF module = "binance_client"
           THEN /\ ret' = result
                /\ pc' = "end"
                /\ UNCHANGED <<printed, qexc, logs>>
           ELSE IF result.kind = "return"
           THEN /\ ret' = Returns(order_tool_text(caller, result.value))
                /\ logs' = IF logged
                           THEN logs \o order_tool_logs(caller, result.value)
                           ELSE logs
                /\ pc' = "end"
                /\ UNCHANGED <<printed, qexc>>
           ELSE /\ qexc' = Some(result.exc)
                /\ pc' = "tool_except"
                /\ UNCHANGED <<printed, ret, logs>>
    /\ UNCHANGED <<order, script, attempt, last_exception, exc, result,
                   validations, calls, sent, sleeps, validated, callerVars,
                   qpc, tool, creds, connect, qsymbol, reply, client, data,
                   requests, retryVars, gatewayVars, connections, stand_in>>

\* except Exception as e: return the error text.
collab_tool_except ==
    /\ pc = "tool_except"
    /\ ret' = order_tool_except(qexc[1])
    /\ logs' = IF tool /= None /\ tool[1].module = "streamlit_tools"
               THEN logs \o order_tool_except_logs(caller, qexc[1])
               ELSE logs
    /\ pc' = "end"
    /\ UNCHANGED <<order, script, attempt, last_exception, exc, result,
                   validations, calls, sent, sleeps, validated, callerVars,
                   qpc, tool, creds, connect, qsymbol, reply, client, data,
                   qexc, requests, retryVars, gatewayVars, collabVars>>

\* A caller builds its request, calls place_order and reports.
NextCallers ==
    \/ caller_build_order
    \/ Next
    \/ collab_report
    \/ collab_tool_except

SpecCallers == InitCallers /\ [][NextCallers]_vars

NextCollab ==
    \/ collab_create_client
    \/ caller_build_order
    \/ cli_place_order_stand_in
    \/ Next
    \/ collab_report
    \/ collab_tool_except

SpecCollab == InitCollab /\ [][NextCollab]_vars

----------------------------------------------------------------------------
\* Vocabulary of the claims about the collaborators.

Ended == pc = "end"
Module == tool[1].module
IsOrderTool == Module \in {"binance_tools", "streamlit_tools"}
StartsWith(text, prefix) ==
    /\ Len(text) >= Len(prefix)
    /\ SubSeq(text, 1, Len(prefix)) = prefix
FailureIndicator == "<U+274C>"
SuccessIndicator == "<U+2705>"
EnvMissing ==
    \/ creds[1].api_key \in {None, Some("")}
    \/ creds[1].api_secret \in {None, Some("")}
PlacedSuccess == result.kind = "return" /\ result.value.success
PlacedFailure == result.kind = "return" /\ ~result.value.success
PlacedValueError == result.kind = "raise" /\ result.exc.type = "ValueError"
PlacedOtherError == result.kind = "raise" /\ result.exc.type /= "ValueError"

\* C21: an order tool never raises; it returns a string for every outcome
\* (Success, Failure, validation error, missing credentials, any other
\* exception), and every outcome other than Success is a message that
\* begins with the failure indicator.
C21_OrderToolsReturnStrings ==
    IsOrderTool =>
        /\ ret.kind /= "raise"
        /\ Ended =>
            /\ ret.kind = "return"
            /\ ret.value /= <<>>
            /\ PlacedSuccess <=> ret.value[1] = SuccessIndicator
            /\ ~PlacedSuccess <=> ret.value[1] = FailureIndicator
            /\ PlacedFailure =>
                  /\ StartsWith(ret.value, ToolText.OrderFailed)
                  /\ Contains(ret.value, result.value.error[1].message)
            /\ PlacedValueError =>
                  ret.value = ToolText.ErrorPlacing \o result.exc.message
            /\ (Module = "binance_tools" /\ EnvMissing) =>
                  ret.value = ToolText.ErrorPlacing \o Msg.EnvRequired
            /\ (~(Module = "binance_tools" /\ EnvMissing)
                /\ connect[1].kind = "raise") =>
                  ret.value = ToolText.ErrorPlacing \o connect[1].exc.message

\* A limit order with price 0 through the streamlit tool: place_order
\* raised the validation error, the tool returned it as a message.
C21_Witness ==
    /\ Ended
    /\ tool[1] = [module |-> "streamlit_tools", name |-> "place_limit_order"]
    /\ PlacedValueError
    /\ ret = Returns(ToolText.ErrorPlacing \o Msg.PriceInvalid)

\* What CLI.run printed after the order summary.
CliReport == SubSeq(printed, Len(print_order_summary(order)) + 1, Len(printed))
ReportsValidationError ==
    \E i \in 1..Len(CliReport) :
        StartsWith(CliReport[i], CliText.ValidationError)
ReportsUnexpectedError ==
    \E i \in 1..Len(CliReport) :
        StartsWith(CliReport[i], CliText.UnexpectedError)
ReportsOrderFailed ==
    \E i \in 1..Len(CliReport) : CliReport[i] = CliText.FailedHeader
ReportsOrderResponse ==
    \E i \in 1..Len(CliReport) : CliReport[i] = CliText.ResponseHeader

\* C22: CLI.run never raises and reports exactly one of: the validation
\* error (place_order raised ValueError), the order-failed block with code
\* and message (Failure), the unexpected error (any other exception), the
\* order-response block (Success).
C22_CliReportsOneOutcomeClass ==
    (Module = "cli" /\ client /= None) =>
        /\ ret.kind /= "raise"
        /\ Ended =>
            /\ ret = Returns(None)
            /\ ReportsValidationError <=> PlacedValueError
            /\ ReportsOrderFailed <=> PlacedFailure
            /\ ReportsUnexpectedError <=> PlacedOtherError
            /\ ReportsOrderResponse <=> PlacedSuccess
            /\ Cardinality({c \in {"validation", "failed", "unexpected",
                                   "response"} :
                   \/ c = "validation" /\ ReportsValidationError
                   \/ c = "failed" /\ ReportsOrderFailed
                   \/ c = "unexpected" /\ ReportsUnexpectedError
                   \/ c = "response" /\ ReportsOrderResponse}) = 1
            /\ PlacedValueError =>
                  CliReport = <<CliText.ValidationError \o result.exc.message
                                \o Txt.Newline>>
            /\ PlacedOtherError =>
                  CliReport = <<CliText.UnexpectedError
                                \o exc_str(result.exc) \o Txt.Newline>>
            /\ PlacedFailure =>
                  /\ Len(CliReport) = 5
                  /\ CliReport[2] =
                        CliText.ErrorCode
                        \o int_str(result.value.error[1].code)
                  /\ CliReport[3] =
                        CliText.ErrorMessage \o result.value.error[1].message

\* place_order of the client raised an exception that is not a
\* ValueError: CLI.run printed the unexpected-error line, and nothing
\* else, after the summary.
C22_Witness ==
    /\ Ended
    /\ Module = "cli"
    /\ PlacedOtherError
    /\ result.exc = OtherException("RuntimeError", Msg.TimedOut)
    /\ ReportsUnexpectedError
    /\ ~ReportsValidationError
    /\ Len(printed) = Len(print_order_summary(order)) + 1
    /\ printed[Len(printed)] =
          CliText.UnexpectedError \o Msg.TimedOut \o Txt.Newline
    /\ ret = Returns(None)

\* C23: BinanceFuturesClient(key, secret, testnet = f) constructs the
\* exchange connection exactly once, with (key, secret, testnet = f), and
\* stores f as the network flag, for f true and f false; place_order does
\* not change the client afterwards.
C23_FlagStoredConnectionOnce ==
    /\ []((Module = "binance_client" /\ pc /= "create") =>
            /\ connections =
                  <<[api_key |-> creds[1].api_key,
                     api_secret |-> creds[1].api_secret,
                     testnet |-> creds[1].testnet]>>
            /\ client /= None => client[1].testnet = creds[1].testnet
            /\ (client = None) <=> (connect[1].kind = "raise"))
    /\ [][(Module = "binance_client" /\ client /= None) =>
            (client' = client /\ connections' = connections)]_vars

\* A client constructed for the production network has placed an order and
\* still carries the production flag.
C23_Witness ==
    /\ Ended
    /\ Module = "binance_client"
    /\ creds[1].testnet = FALSE
    /\ client /= None
    /\ client[1].testnet = FALSE
    /\ Len(connections) = 1
    /\ connections[1].testnet = FALSE
    /\ calls = 1

\* C24: every client constructed by the CLI or by an order tool of either
\* module targets the test network: the connection is constructed with
\* testnet = True and the client carries the test-network flag and URL.
C24_CollaboratorsTargetTestnet ==
    Module /= "binance_client" =>
        /\ \A i \in 1..Len(connections) : connections[i].testnet = TRUE
        /\ client /= None =>
              /\ client[1].testnet = TRUE
              /\ client[1].futures_url
                    = Some("https://testnet.binancefuture.com")

\* The streamlit market-order tool has placed an order through a client
\* of the test network.
C24_Witness ==
    /\ Ended
    /\ tool[1] = [module |-> "streamlit_tools", name |-> "place_market_order"]
    /\ calls = 1
    /\ client /= None
    /\ client[1].testnet = TRUE
    /\ connections = <<[api_key |-> Some("key"), api_secret |-> Some("secret"),
                        testnet |-> TRUE]>>

\* C25: with BINANCE_API_KEY or BINANCE_API_SECRET unset or empty, CLI()
\* and the environment-based get_client raise ValueError("BINANCE_API_KEY
\* and BINANCE_API_SECRET environment variables are required") and
\* construct no exchange client; with both set the client is constructed.
C25_MissingCredentialsRaiseValueError ==
    (Module \in {"cli", "binance_tools"} /\ pc /= "create") =>
        /\ EnvMissing =>
              /\ connections = <<>>
              /\ client = None
              /\ Module = "cli" =>
                    (Ended /\ ret = Raises(ValueError(Msg.EnvRequired)))
              /\ Module = "binance_tools" =>
                    /\ pc \in {"tool_except", "end"}
                    /\ qexc = Some(ValueError(Msg.EnvRequired))
        /\ ~EnvMissing =>
              /\ Len(connections) = 1
              /\ connect[1].kind = "return" => client /= None

\* CLI() with the secret unset has raised the ValueError.
C25_Witness ==
    /\ Ended
    /\ Module = "cli"
    /\ creds[1].api_secret = None
    /\ creds[1].api_key = Some("key")
    /\ ret = Raises(ValueError(Msg.EnvRequired))
    /\ connections = <<>>

----------------------------------------------------------------------------
\* Several BinanceFuturesClient instances in one process, each serving a
\* series of place_order calls; the steps of the instances interleave.

MaxCalls == 2

Instances == 1..2

\* The requests the callers pass: a valid MARKET request, an invalid one.
GatewayOrders ==
    { [symbol |-> "BTCUSDT", side |-> "BUY", order_type |-> "MARKET",
       quantity |-> Float(1), price |-> None],
      [symbol |-> "BTCUSDT", side |-> "SELL", order_type |-> "LIMIT",
       quantity |-> Float(0), price |-> Some(Float(1))] }

\* What the exchange does with a futures_create_order call.
GatewayOutcomes ==
    { Returns([orderId |-> 123456, status |-> "FILLED"]),
      Raises(BinanceAPIException(0, Msg.ServiceUnavailable)) }

\* BinanceFuturesClient(api_key, api_secret, testnet), lines 102-110: the
\* attributes of the instance; no call is in progress.
gateway_new(api_key, api_secret, testnet, todo, feed) ==
    [self |-> BinanceFuturesClient(api_key, api_secret, testnet,
                                   Returns(Client(api_key, api_secret,
                                                  testnet))).value,
     pc |-> "idle",
     attempt |-> 0,
     last_exception |-> None,
     exc |-> None,
     todo |-> todo,
     feed |-> feed,
     observed |-> <<>>,
     validations |-> 0,
     sleeps |-> <<>>,
     sent |-> <<>>,
     served |-> <<>>,
     logs |-> init_logs(testnet)]

\* The first instance works on the testnet, the second on production; each
\* caller holds MaxCalls requests, each exchange MaxCalls outcomes.
InitGateways ==
    /\ QueryIdle
    /\ PlaceOrderDecorated
    /\ CollabIdle
    /\ pc = "none"
    /\ order = None
    /\ script = <<>>
    /\ attempt = 0
    /\ last_exception = None
    /\ exc = None
    /\ result = [kind |-> "none"]
    /\ validations = 0
    /\ calls = <<>>
    /\ sent = <<>>
    /\ sleeps = <<>>
    /\ validated = <<>>
    /\ caller = "place_order"
    /\ args = None
    /\ logs = <<>>
    /\ \E todo \in [Instances -> [1..MaxCalls -> GatewayOrders]] :
       \E feed \in [Instances -> [1..MaxCalls -> GatewayOutcomes]] :
           gateways = <<gateway_new("key1", "secret1", TRUE,
                                    todo[1], feed[1]),
                        gateway_new("key2", "secret2", FALSE,
                                    todo[2], feed[2])>>

\* The call has ended with r: the caller takes the result and holds its
\* next request.
gateway_return(gw, r) ==
    [gw EXCEPT !.pc = "idle",
               !.exc = None,
               !.todo = Tail(@),
               !.served = Append(@, [order |-> Head(gw.todo),
                                     observed |-> gw.observed,
                                     validations |-> gw.validations,
                                     sleeps |-> gw.sleeps,
                                     result |-> r])]

\* A wrapper whose attempt counter outlives the call: the loop goes on
\* from where the previous call of the instance left it.
gateway_enter_resumes(g) ==
    /\ gateways[g].pc = "idle"
    /\ gateways[g].todo /= <<>>
    /\ gateways' = [gateways EXCEPT ![g] =
                       [@ EXCEPT !.pc = "for",
                                 !.last_exception = None,
                                 !.observed = <<>>,
                                 !.validations = 0,
                                 !.sleeps = <<>>]]
    /\ UNCHANGED <<orderVars, queryVars, retryVars, collabVars, logs>>

\* The caller invokes place_order(order) on instance g: wrapper, lines
\* 20-22; last_exception and attempt are locals of this call.
gateway_enter(g) ==
    /\ gateways[g].pc = "idle"
    /\ gateways[g].todo /= <<>>
    /\ gateways' = [gateways EXCEPT ![g] =
                       [@ EXCEPT !.pc = "for",
                                 !.attempt = 0,
                                 !.last_exception = None,
                                 !.observed = <<>>,
                                 !.validations = 0,
                                 !.sleeps = <<>>]]
    /\ UNCHANGED <<orderVars, queryVars, retryVars, collabVars, logs>>

\* wrapper, line 22 (loop head) and lines 57-60 (after the loop).
gateway_for(g) ==
    LET gw == gateways[g]
    IN  /\ gw.pc = "for"
        /\ gateways' = [gateways EXCEPT ![g] =
               IF gw.attempt < max_retries
               THEN [gw EXCEPT !.pc = "body"]
               ELSE gateway_return(
                        [gw EXCEPT !.logs =
                                       @ \o exhausted_logs(gw.last_exception)],
                        IF gw.last_exception /= None
                        THEN Raises(gw.last_exception[1])
                        ELSE Raises(OtherException("Exception",
                                                   Msg.UnknownError)))]
        /\ UNCHANGED <<orderVars, queryVars, retryVars, collabVars, logs>>

\* place_order, lines 114-121: validation.
gateway_validate(g) ==
    LET gw == gateways[g]
        v == validate(Head(gw.todo))
    IN  /\ gw.pc = "body"
        /\ gateways' = [gateways EXCEPT ![g] =
               [gw EXCEPT !.validations = @ + 1,
                          !.logs = @ \o validate_logs(Head(gw.todo), v),
                          !.pc = IF v.ok THEN "send" ELSE "except",
                          !.exc = IF v.ok THEN None
                                  ELSE Some(ValueError(v.reason[1]))]]
        /\ UNCHANGED <<orderVars, queryVars, retryVars, collabVars, logs>>

\* place_order, lines 123-159, and the wrapper's return at line 24: the
\* request goes out through the instance's own handle.
gateway_send(g) ==
    LET gw == gateways[g]
        out == Head(gw.feed)
        body == order_result(out)
        gone == [gw EXCEPT !.feed = Tail(@),
                           !.observed = Append(@, out),
                           !.logs = @ \o send_logs(out),
                           !.sent = Append(@, build_params(Head(gw.todo)))]
    IN  /\ gw.pc = "send"
        /\ gateways' = [gateways EXCEPT ![g] =
               IF body.kind = "return"
               THEN gateway_return(gone, body)
               ELSE [gone EXCEPT !.pc = "except",
                                 !.exc = Some(body.exc)]]
        /\ UNCHANGED <<orderVars, queryVars, retryVars, collabVars, logs>>

\* wrapper, lines 25-56: the two except clauses, up to the call of
\* time.sleep.
gateway_except(g) ==
    LET gw == gateways[g]
        e == gw.exc[1]
        seen == [gw EXCEPT !.last_exception =
                               IF e.type = "BinanceAPIException"
                               THEN Some(e) ELSE @,
                           !.logs = @ \o wrapper_logs(max_retries,
                                                      wait_time(gw.attempt),
                                                      e, gw.attempt)]
    IN  /\ gw.pc = "except"
        /\ gateways' = [gateways EXCEPT ![g] =
               IF should_retry(e, gw.attempt)
               THEN [seen EXCEPT !.sleeps = Append(@, wait_time(gw.attempt)),
                                 !.pc = "sleep"]
               ELSE gateway_return(seen, Raises(e))]
        /\ UNCHANGED <<orderVars, queryVars, retryVars, collabVars, logs>>

\* wrapper, lines 41 and 55, then line 22: time.sleep has returned, the
\* handler ends with continue and the loop takes the next attempt.
gateway_continue(g) ==
    /\ gateways[g].pc = "sleep"
    /\ gateways' = [gateways EXCEPT ![g] =
                       [@ EXCEPT !.attempt = @ + 1,
                                 !.exc = None,
                                 !.pc = "for"]]
    /\ UNCHANGED <<orderVars, queryVars, retryVars, collabVars, logs>>

NextGateways ==
    \E g \in Instances :
        \/ gateway_enter(g)
        \/ gateway_for(g)
        \/ gateway_validate(g)
        \/ gateway_send(g)
        \/ gateway_except(g)
        \/ gateway_continue(g)

SpecGateways == InitGateways /\ [][NextGateways]_vars

----------------------------------------------------------------------------
\* The finished place_order calls of all instances.
ServedCalls ==
    UNION {{gateways[g].served[i] : i \in 1..Len(gateways[g].served)} :
           g \in DOMAIN gateways}

\* The sleeps of a call that used up every attempt on failures.
AllBackoffs == [i \in 1..(max_retries - 1) |-> delay * i]

\* The call counted its attempts from zero: a request that passes
\* validation is validated once, sent once and never waited for; one that
\* fails validation is validated max_retries times with every backoff and
\* is never sent.
CountedAfresh(c) ==
    IF validate(c.order).ok
    THEN c.validations = 1 /\ c.sleeps = <<>> /\ Len(c.observed) = 1
    ELSE /\ c.validations = max_retries
         /\ c.sleeps = AllBackoffs
         /\ c.observed = <<>>
         /\ c.result.kind = "raise"

\* Two calls with the same request that observed the same exchange
\* outcomes ended the same way.
SameInSameOut(c, d) ==
    (c.order = d.order /\ c.observed = d.observed) =>
        /\ c.result = d.result
        /\ c.validations = d.validations
        /\ c.sleeps = d.sleeps

\* A step of one instance leaves every other instance as it was, changes
\* no instance's network flag or handle, only adds to the results, and a
\* call that begins has attempt 0 and no last exception.
InstancesIsolated ==
    \A g \in DOMAIN gateways :
        /\ gateways'[g].self = gateways[g].self
        /\ SubSeq(gateways'[g].served, 1, Len(gateways[g].served)) =
               gateways[g].served
        /\ gateways'[g] /= gateways[g] =>
               \A h \in DOMAIN gateways \ {g} : gateways'[h] = gateways[h]
        /\ (gateways[g].pc = "idle" /\ gateways'[g].pc = "for") =>
               /\ gateways'[g].attempt = 0
               /\ gateways'[g].last_exception = None

\* C31: the gateway keeps no mutable state across calls: every place_order
\* call counts its attempts from zero whatever earlier calls did, calls
\* with the same request and the same observed exchange outcomes end the
\* same way, and a step of one gateway instance, in any interleaving with
\* another instance, never changes the other's network flag, handle or
\* results.
C31_NoStateAcrossCalls ==
    /\ [](\A c \in ServedCalls : CountedAfresh(c))
    /\ [](\A c, d \in ServedCalls : SameInSameOut(c, d))
    /\ [][InstancesIsolated]_vars

\* The first instance has served two requests that failed validation, each
\* with all its attempts; the second, on the production network, served an
\* accepted order in between and is inside its next call.
C31_Witness ==
    /\ Len(gateways) = 2
    /\ Len(gateways[1].served) = 2
    /\ \A i \in 1..2 : /\ gateways[1].served[i].validations = max_retries
                       /\ gateways[1].served[i].sleeps = <<2, 4>>
                       /\ gateways[1].served[i].result.kind = "raise"
    /\ gateways[1].self.testnet
    /\ ~gateways[2].self.testnet
    /\ Len(gateways[2].served) = 1
    /\ gateways[2].served[1].result.kind = "return"
    /\ gateways[2].served[1].result.value.success
    /\ gateways[2].pc = "except"
    /\ gateways[2].attempt = 1

----------------------------------------------------------------------------
\* C32: the payload place_order sends has exactly the keys symbol, side,
\* type, quantity for a MARKET request and exactly symbol, side, type,
\* quantity, price, timeInForce for a LIMIT request; symbol, side, quantity
\* and price are the request's fields, type is its order_type and
\* timeInForce is GTC; a price given on a MARKET request is not sent.
C32_WirePayloadKeys ==
    \A i \in 1..Len(sent) :
        LET p == sent[i]
        IN  /\ p.symbol = order.symbol
            /\ p.side = order.side
            /\ p.type = order.order_type
            /\ p.quantity = order.quantity
            /\ order.order_type = "MARKET" =>
                  DOMAIN p = {"symbol", "side", "type", "quantity"}
            /\ order.order_type = "LIMIT" =>
                  /\ DOMAIN p = {"symbol", "side", "type", "quantity",
                                 "price", "timeInForce"}
                  /\ p.price = order.price
                  /\ p.timeInForce = Some("GTC")

\* A MARKET request that carries a price has been sent with four keys.
C32_Witness ==
    /\ Len(sent) = 1
    /\ order.order_type = "MARKET"
    /\ order.price = Some(Float(1))
    /\ DOMAIN sent[1] = {"symbol", "side", "type", "quantity"}
    /\ sent[1].quantity = Float(1)

----------------------------------------------------------------------------
\* Every operation that handles the credentials: the collaborators that
\* construct a client and place an order, and the query tools.
InitOperations == InitCollab \/ InitQuery

NextOperations ==
    \/ NextCollab
    \/ NextQuery

SpecOperations == InitOperations /\ [][NextOperations]_vars

\* The credentials in use, as texts; an unset or empty one is no secret.
Secrets ==
    {CredentialText(k[1]) :
        k \in {creds[1].api_key, creds[1].api_secret} \ {None}} \ {<<>>}
Exposes(text) == \E secret \in Secrets : Contains(text, secret)

\* The texts of a Result: the values of the acknowledgement, or the code
\* and the message of the error.
ResultTexts(r) ==
    IF r.success
    THEN {value_str(key, r.data[1][key]) : key \in DOMAIN r.data[1]}
    ELSE {int_str(r.error[1].code), r.error[1].message}

\* The texts of the way a call ended: the returned string or the texts of
\* the returned Result, or the text of the exception raised.
OutcomeTexts(r, is_string) ==
    IF r.kind = "none" THEN {}
    ELSE IF r.kind = "raise" THEN {exc_str(r.exc)}
    ELSE IF is_string THEN {r.value}
    ELSE ResultTexts(r.value)

\* C17: the API key and the API secret appear in no log message and in no
\* Result or returned or raised text of client construction, place_order
\* and the query tools, whatever the outcome.
C17_CredentialsNeverExposed ==
    /\ Secrets /= {}
    /\ \A i \in 1..Len(logs) : ~Exposes(logs[i].message)
    /\ \A text \in OutcomeTexts(result, FALSE)
                    \cup OutcomeTexts(ret, Module /= "binance_client") :
           ~Exposes(text)

\* A market order through the streamlit tool, constructed with both
\* credentials, was refused by the exchange: five records were logged, the
\* last an error, and the tool returned the failure text.
C17_Witness ==
    /\ Ended
    /\ tool[1] = [module |-> "streamlit_tools", name |-> "place_market_order"]
    /\ connections = <<Client(Some("key"), Some("secret"), TRUE)>>
    /\ PlacedFailure
    /\ Len(logs) = 5
    /\ logs[1].message = LogText.InvokedMarket
                          \o <<"b","t","c","u","s","d","t",",", " ",
                               "b","u","y",",", " ","1",".","0",")">>
    /\ logs[5].level = "ERROR"
    /\ StartsWith(ret.value, ToolText.OrderFailed)

====
